---------------------------- MODULE Spec2Model ----------------------------
(***************************************************************************)
(* The squad recommendation request of                                     *)
(* backend/app/api/routes/recommendations.py (GET /recommendations/squad)  *)
(* as a state machine.  One request is followed statement by statement:    *)
(* target gameweek resolution, candidate fetch and raw-count check, the    *)
(* starting XI loop, the bench loop, and the response.  _try_pick_one is   *)
(* followed candidate by candidate, so the state between a hypothetical    *)
(* add and its feasibility check is a state of the model.                  *)
(*                                                                         *)
(* Money is kept in tenths of a million (Player.now_cost is an integer in  *)
(* tenths; cost_m = now_cost / 10.0).  A budget or a sum in the model is   *)
(* ten times the float of the code, so the 1e-9 tolerance of the code's    *)
(* comparisons is the exact integer comparison here.  A Python dict is a   *)
(* function whose DOMAIN is the set of keys present; an Optional value is  *)
(* a sequence of length 0 (None) or 1.                                     *)
(***************************************************************************)
EXTENDS Integers, Sequences, FiniteSets, TLC

VARIABLES
    SQUAD_RULES,          \* module-level dict, shared by every request
    STARTING_FORMATION,   \* module-level dict, shared by every request
    next_gw,              \* database: gw of the Gameweek with is_next, or None
    db_rows,              \* database: the rows the candidate query returns, in order
    now,                  \* the clock read by datetime.now
    req_target_gw,        \* request parameter target_gw
    target_gw,            \* the local target_gw after line 509 (None before)
    budget_m,             \* request parameter (tenths)
    max_per_team,         \* request parameter
    pc,                   \* position of the request in recommend_squad and its callees
    phase,                \* "starting" or "bench": which loop called _try_pick_one
    buckets,              \* position -> list of rows
    ordered_points,       \* position -> bucket sorted by "points"
    ordered_value,        \* position -> bucket sorted by "value"
    selected_ids,
    team_counts,
    total_have,
    starting_have,
    starting_rows,        \* "picked" of _pick_starting_xi
    bench_rows,           \* "picked" of _pick_bench
    reasons1,             \* "reasons" of _pick_starting_xi
    reasons2,             \* "reasons" of _pick_bench
    remaining_budget,     \* remaining_budget / remaining_budget_m of the two loops
    cycle,
    guard,
    progress,             \* progress_this_cycle / progress
    pos_i,                \* index of the for loop over the positions
    try_i,                \* index of the for loop of _try_pick_one over ordered_bucket
    ret,                  \* what _try_pick_one returned: [row, err]
    response,             \* the value recommend_squad returns
    run,                  \* how many requests this process has served so far, this one included
    prev_response,        \* the response of the previous request (repeated builds)
    prev_build,           \* None, or the picks and reasons of the previous request
    thread,               \* which thread of the threadpool holds the variables above: 1 or 2
    parked,               \* the locals of the request of the other thread, or None
    overlapped,           \* the two requests have both been in the middle of their build
    alone                 \* None, or [of, interleaved]: request "of" is served again, alone

vars == << SQUAD_RULES, STARTING_FORMATION, next_gw, db_rows, now, req_target_gw, target_gw,
           budget_m, max_per_team, pc, phase, buckets, ordered_points,
           ordered_value, selected_ids, team_counts, total_have, starting_have,
           starting_rows, bench_rows, reasons1, reasons2, remaining_budget,
           cycle, guard, progress, pos_i, try_i, ret, response, run,
           prev_response, prev_build, thread, parked, overlapped, alone >>

---------------------------------------------------------------------------
(* Bounds of the model *)

\* a pool holds, beyond the quota of every role, 0..MaxExtraRows more rows, dealt
\* to the roles in turn (GKP, DEF, MID, FWD, GKP, ..)
MaxExtraRows == 4
\* the attribute patterns (team, cost, points, row order) are drawn by seeds 0..MaxSeed
MaxSeed == 26
\* two requests served by two threads at once run on the pools of seeds
\* 0..MaxSeedTwo, the pool of seed s holding s + 3 rows beyond the quotas
MaxSeedTwo == 1
\* the rankings are tried on buckets of up to MaxBucket rows out of the first
\* MaxPalette rows of the palette
MaxBucket == 4
MaxPalette == 6
\* a process serves at most MaxRuns requests one after the other
MaxRuns == 2

---------------------------------------------------------------------------
(* Program constants *)

MODEL_NAME == "baseline_rollavg_v0"
Positions == {"GKP", "DEF", "MID", "FWD"}
\* iteration order of a dict literal {"GKP":..,"DEF":..,"MID":..,"FWD":..}
PositionOrder == << "GKP", "DEF", "MID", "FWD" >>
SQUAD_RULES_0 == [p \in Positions |->
    CASE p = "GKP" -> 2 [] p = "DEF" -> 5 [] p = "MID" -> 5 [] p = "FWD" -> 3]
\* a formation of 4-4-2 in place of 3-4-3
STARTING_FORMATION_442 == [p \in {"GKP", "DEF", "MID", "FWD"} |->
    CASE p = "GKP" -> 1 [] p = "DEF" -> 4 [] p = "MID" -> 4 [] p = "FWD" -> 2]
STARTING_FORMATION_0 == [p \in Positions |->
    CASE p = "GKP" -> 1 [] p = "DEF" -> 3 [] p = "MID" -> 4 [] p = "FWD" -> 3]
POSITION_CYCLE == << "FWD", "MID", "DEF", "GKP" >>
BENCH_ORDER == << "GKP", "DEF", "MID", "FWD" >>
GuardStarting == 2000
GuardBench == 3000
MaxReasons == 6
SquadSize == 15
BenchListSize == 4
\* Query(ge=50.0, le=200.0) and Query(ge=1, le=3)
BudgetMin == 500
BudgetMax == 2000
MaxPerTeamMin == 1
MaxPerTeamMax == 3

ErrNoNext == "No next gameweek found. Run /gameweeks/ingest/fpl first."
ErrNotEnough == "Not enough candidates to satisfy squad rules under current filters."
ErrStarting == "Failed to build a valid starting XI with current constraints."
ErrSquad == "Failed to build a valid squad with current constraints."

---------------------------------------------------------------------------
(* Python values *)

None == << >>
Some(x) == << x >>
EmptyDict == [k \in {} |-> 0]
\* d.get(k, 0)
Get(d, k) == IF k \in DOMAIN d THEN d[k] ELSE 0
\* d[k] = v
Put(d, k, v) == [x \in (DOMAIN d) \cup {k} |-> IF x = k THEN v ELSE d[x]]
\* del d[k]
Del(d, k) == [x \in (DOMAIN d) \ {k} |-> d[x]]
\* DecOrDel without the del: an entry that returns to zero stays in the dict
DecOrDel_NoDelete(d, k) == Put(d, k, d[k] - 1)

\* d[k] -= 1; if d[k] <= 0: del d[k]
DecOrDel(d, k) == IF d[k] - 1 <= 0 THEN Del(d, k) ELSE Put(d, k, d[k] - 1)

RECURSIVE SumSeq(_)
SumSeq(s) == IF s = << >> THEN 0 ELSE Head(s) + SumSeq(Tail(s))

\* AppendCapped without the test len(reasons) < 6
AppendCapped_Uncapped(rs, msg) == Append(rs, msg)

\* AppendCapped with the comparison the wrong way round
AppendCapped_Reversed(rs, msg) == IF Len(rs) > MaxReasons THEN Append(rs, msg) ELSE rs

\* len(reasons) < 6 guards every append but the guard-hit one
AppendCapped(rs, msg) == IF Len(rs) < MaxReasons THEN Append(rs, msg) ELSE rs

---------------------------------------------------------------------------
(* Rows.  A row of the candidate query is the triple (Prediction, Player,  *)
(* Team); the model keeps the fields the optimizer reads:                  *)
(* id = Player.id, position = Player.position, team_id = Team.id,          *)
(* now_cost = Player.now_cost, predicted_points = Prediction.predicted_points *)

Row(i, p, t, c, pts) ==
    [id |-> i, position |-> p, team_id |-> t, now_cost |-> c, predicted_points |-> pts]

\* cost_m in tenths: float(now_cost) / 10.0, times ten
_calc_cost_m(now_cost) == now_cost

\* the denominator of _calc_value in tenths: cost_m if cost_m > 0 else 0.1
ValueDenom(r) == IF _calc_cost_m(r.now_cost) > 0 THEN _calc_cost_m(r.now_cost) ELSE 1

\* _calc_value(a) < _calc_value(b), as exact fractions with positive denominators
ValueLess(a, b) ==
    a.predicted_points * ValueDenom(b) < b.predicted_points * ValueDenom(a)

\* PointsKey with the points alone
PointsKey_PointsAlone(r) == << r.predicted_points >>

\* PointsKey with the player id not negated
PointsKey_IdNotNegated(r) == << r.predicted_points, 0 - r.now_cost, 0 - r.team_id, r.id >>

\* the sort key of "points": (points, -now_cost, -team id, -player id)
PointsKey(r) == << r.predicted_points, 0 - r.now_cost, 0 - r.team_id, 0 - r.id >>

\* tuple comparison a < b
RECURSIVE TupleLess(_, _)
TupleLess(a, b) ==
    IF a = << >> \/ b = << >> THEN Len(a) < Len(b)
    ELSE IF Head(a) # Head(b) THEN Head(a) < Head(b)
    ELSE TupleLess(Tail(a), Tail(b))

\* KeyLess whose "value" key is the value alone, without the points
KeyLess_ValueAlone(a, b, order_by) ==
    IF order_by = "points" THEN TupleLess(PointsKey(a), PointsKey(b))
    ELSE ValueLess(a, b)

\* key(a) < key(b) for the key of order_by
KeyLess(a, b, order_by) ==
    IF order_by = "points" THEN TupleLess(PointsKey(a), PointsKey(b))
    ELSE \/ ValueLess(a, b)
         \/ (~ValueLess(b, a) /\ a.predicted_points < b.predicted_points)

\* sorted(.., reverse=True) is stable: r goes after every row whose key is
\* not smaller than its own
InsertDescending(s, r, order_by) ==
    LET n == Cardinality({j \in 1..Len(s) : ~KeyLess(s[j], r, order_by)})
    IN  SubSeq(s, 1, n) \o << r >> \o SubSeq(s, n + 1, Len(s))

RECURSIVE SortedDescending(_, _, _)
SortedDescending(bucket, acc, order_by) ==
    IF bucket = << >> THEN acc
    ELSE SortedDescending(Tail(bucket), InsertDescending(acc, Head(bucket), order_by), order_by)

_sort_bucket(bucket, order_by) == SortedDescending(bucket, << >>, order_by)

_build_candidate_buckets(rows) ==
    [p \in Positions |-> SelectSeq(rows, LAMBDA r : r.position = p)]

_remaining_needed(required, have) ==
    [p \in DOMAIN required |->
        IF required[p] - Get(have, p) > 0 THEN required[p] - Get(have, p) ELSE 0]

\* Available without the test on the team count
Available_NoTeamTest(bucket, selected_player_ids, counts, max_team) ==
    SelectSeq(bucket, LAMBDA r : r.id \notin selected_player_ids)

\* the rows of a bucket that pass the two "continue" tests of the oracle
Available(bucket, selected_player_ids, counts, max_team) ==
    SelectSeq(bucket, LAMBDA r :
        /\ r.id \notin selected_player_ids
        /\ ~(Get(counts, r.team_id) >= max_team))

\* costs.sort()
InsertAscending(s, c) ==
    LET n == Cardinality({j \in 1..Len(s) : s[j] <= c})
    IN  SubSeq(s, 1, n) \o << c >> \o SubSeq(s, n + 1, Len(s))

RECURSIVE SortedAscending(_, _)
SortedAscending(costs, acc) ==
    IF costs = << >> THEN acc
    ELSE SortedAscending(Tail(costs), InsertAscending(acc, Head(costs)))

\* _sum_cheapest_cost_m with the costs sorted the wrong way round: the sum of
\* the k dearest
_sum_cheapest_cost_m_Dearest(pos, k, bkts, selected_player_ids, counts, max_team) ==
    IF k <= 0 THEN Some(0)
    ELSE LET av == Available(bkts[pos], selected_player_ids, counts, max_team)
             costs == [j \in 1..Len(av) |-> _calc_cost_m(av[j].now_cost)]
         IN  IF Len(costs) < k THEN None
             ELSE Some(SumSeq(SubSeq(SortedAscending(costs, << >>),
                                     Len(costs) - k + 1, Len(costs))))

\* None when fewer than k rows are available, else the sum of the k cheapest
_sum_cheapest_cost_m(pos, k, bkts, selected_player_ids, counts, max_team) ==
    IF k <= 0 THEN Some(0)
    ELSE LET av == Available(bkts[pos], selected_player_ids, counts, max_team)
             costs == [j \in 1..Len(av) |-> _calc_cost_m(av[j].now_cost)]
         IN  IF Len(costs) < k THEN None
             ELSE Some(SumSeq(SubSeq(SortedAscending(costs, << >>), 1, k)))

\* _can_complete_squad with a strict budget comparison: < instead of <= .. + 1e-9
_can_complete_squad_Strict(remaining_budget_m, remaining_needed_total, bkts, selected_player_ids, counts, max_team) ==
    LET needy == {p \in DOMAIN remaining_needed_total : remaining_needed_total[p] > 0}
        av == [p \in needy |-> Available(bkts[p], selected_player_ids, counts, max_team)]
        cheapest == [p \in needy |->
            SumSeq(SubSeq(SortedAscending([j \in 1..Len(av[p]) |-> av[p][j].now_cost], << >>),
                          1, remaining_needed_total[p]))]
        order == SelectSeq(PositionOrder, LAMBDA p : p \in needy)
    IN  /\ \A p \in needy : Len(av[p]) >= remaining_needed_total[p]
        /\ SumSeq([j \in 1..Len(order) |-> cheapest[order[j]]]) < remaining_budget_m

_can_complete_squad(remaining_budget_m, remaining_needed_total, bkts, selected_player_ids, counts, max_team) ==
    LET needy == {p \in DOMAIN remaining_needed_total : remaining_needed_total[p] > 0}
        quantity_ok == \A p \in needy :
            ~(Len(Available(bkts[p], selected_player_ids, counts, max_team))
                < remaining_needed_total[p])
        s == [p \in needy |->
                _sum_cheapest_cost_m(p, remaining_needed_total[p], bkts,
                                     selected_player_ids, counts, max_team)]
        order == SelectSeq(PositionOrder, LAMBDA p : p \in needy)
        min_possible == SumSeq([j \in 1..Len(order) |-> s[order[j]][1]])
    IN  /\ quantity_ok
        /\ \A p \in needy : s[p] # None
        /\ min_possible <= remaining_budget_m

---------------------------------------------------------------------------
(* Result assembly *)

_group_by_position(rows) ==
    [p \in Positions |-> SelectSeq(rows, LAMBDA r : r.position = p)]

\* the fields of _serialize_compact the optimizer's callers compare
\* (cost_m is kept in tenths, as everywhere)
_serialize_compact(r) ==
    [player_id |-> r.id, position |-> r.position, team_id |-> r.team_id,
     cost_m |-> _calc_cost_m(r.now_cost), predicted_points |-> r.predicted_points]

SerializeAll(rows) == [j \in 1..Len(rows) |-> _serialize_compact(rows[j])]

Payload(grouped) == [p \in Positions |-> SerializeAll(grouped[p])]

_flatten_pos_dict(pos_dict) ==
    pos_dict["GKP"] \o pos_dict["DEF"] \o pos_dict["MID"] \o pos_dict["FWD"]

\* _build_bench_list with the outfield priority MID -> DEF -> FWD
_build_bench_list_MidFirst(bench_dict) ==
    LET gk == bench_dict["GKP"]
        bench_list_local == IF gk # << >> THEN << gk[1] >> ELSE << >>
        outfield == bench_dict["MID"] \o bench_dict["DEF"] \o bench_dict["FWD"]
        need == BenchListSize - Len(bench_list_local)
    IN  bench_list_local \o SubSeq(outfield, 1, IF need < Len(outfield) THEN need ELSE Len(outfield))

_build_bench_list(bench_dict) ==
    LET gk == bench_dict["GKP"]
        bench_list_local == IF gk # << >> THEN << gk[1] >> ELSE << >>
        outfield == bench_dict["DEF"] \o bench_dict["MID"] \o bench_dict["FWD"]
        need == BenchListSize - Len(bench_list_local)
    IN  bench_list_local \o SubSeq(outfield, 1, IF need < Len(outfield) THEN need ELSE Len(outfield))

\* _tag with enumerate(items) counting from 0
_tag_ZeroBased(items, role) ==
    [j \in 1..Len(items) |-> [item |-> items[j], role |-> role, slot |-> j - 1]]

_tag(items, role) ==
    [j \in 1..Len(items) |-> [item |-> items[j], role |-> role, slot |-> j]]

\* how many rows of a list have position p
CountPosition(rows, p) == Len(SelectSeq(rows, LAMBDA r : r.position = p))

Filters ==
    [status |-> "a", max_cost |-> None, min_predicted_points |-> None,
     budget_m |-> budget_m, max_per_team |-> max_per_team,
     rules |-> SQUAD_RULES, starting_formation |-> STARTING_FORMATION,
     view |-> "compact"]

candidates_count == [p \in Positions |-> Len(buckets[p])]

\* FailureResponse that leaves the diagnostics out
FailureResponse_NoDiagnostics(err, diag) ==
    [target_gw |-> target_gw[1], model_name |-> MODEL_NAME, generated_at |-> now,
     filters |-> Filters, error |-> err]

FailureResponse(err, diag) ==
    [target_gw |-> target_gw[1], model_name |-> MODEL_NAME, generated_at |-> now,
     filters |-> Filters, error |-> err, diagnostics |-> diag]

SuccessResponse ==
    LET starting_payload == Payload(_group_by_position(starting_rows))
        bench_payload == Payload(_group_by_position(bench_rows))
        bench_list == _build_bench_list(bench_payload)
        final_rows == starting_rows \o bench_rows
    IN  [target_gw |-> target_gw[1], model_name |-> MODEL_NAME, generated_at |-> now,
         filters |-> Filters,
         summary |-> [spent_m |-> budget_m - remaining_budget,
                      remaining_m |-> remaining_budget,
                      team_counts |-> team_counts,
                      squad_counts |-> [p \in DOMAIN SQUAD_RULES |-> CountPosition(final_rows, p)]],
         starting_xi |-> starting_payload,
         bench |-> bench_payload,
         bench_list |-> bench_list,
         squad_list |-> _tag(_flatten_pos_dict(starting_payload), "starting")
                            \o _tag(bench_list, "bench")]

NoResponse == [pending |-> TRUE]
NoReturn == [row |-> None, err |-> None]

---------------------------------------------------------------------------
(* The request, statement by statement *)

module_state == << SQUAD_RULES, STARTING_FORMATION >>
database == << next_gw, db_rows >>
request == << req_target_gw, budget_m, max_per_team >>
threads == << thread, parked, overlapped, alone >>
history == << run, prev_response, prev_build, threads >>
selection == << selected_ids, team_counts, total_have, starting_have >>
sorted_buckets == << ordered_points, ordered_value >>
picks == << starting_rows, bench_rows, remaining_budget >>
loop_state == << cycle, guard, progress, pos_i >>

\* Metric with the two strategies exchanged
Metric_Exchanged == IF cycle % 2 = 0 THEN "value" ELSE "points"

\* metric of the current cycle of the starting loop
Metric == IF cycle % 2 = 0 THEN "points" ELSE "value"

\* the arguments of the running call of _try_pick_one
TryPos == IF phase = "starting" THEN POSITION_CYCLE[pos_i] ELSE BENCH_ORDER[pos_i]
OrderedBucket ==
    IF phase = "starting" /\ Metric = "points" THEN ordered_points[TryPos]
    ELSE ordered_value[TryPos]
ReturnPc == IF phase = "starting" THEN "xi_got" ELSE "bench_got"
TryRow == OrderedBucket[try_i]
\* f"[starting:{metric}] .."
StartingTag == IF Metric = "points" THEN "[starting:points]" ELSE "[starting:value]"

\* DecideTargetGw that looks the next gameweek up even when the request names
\* a target gameweek
DecideTargetGw_AlwaysLooksUp ==
    /\ pc = "decide"
    /\ IF next_gw = None
       THEN /\ response' = [error |-> ErrNoNext]
            /\ pc' = "done"
            /\ UNCHANGED target_gw
       ELSE /\ target_gw' = IF req_target_gw # None THEN req_target_gw ELSE next_gw
            /\ pc' = "fetch"
            /\ UNCHANGED response
    /\ UNCHANGED << module_state, database, request, history, now, phase, buckets,
                    sorted_buckets, selection, picks, reasons1, reasons2,
                    loop_state, try_i, ret >>

DecideTargetGw ==
    /\ pc = "decide"
    /\ IF req_target_gw # None
       THEN /\ target_gw' = req_target_gw
            /\ pc' = "fetch"
            /\ UNCHANGED response
       ELSE IF next_gw = None
       THEN /\ response' = [error |-> ErrNoNext]
            /\ pc' = "done"
            /\ UNCHANGED target_gw
       ELSE /\ target_gw' = next_gw
            /\ pc' = "fetch"
            /\ UNCHANGED response
    /\ UNCHANGED << module_state, database, request, history, now, phase, buckets,
                    sorted_buckets, selection, picks, reasons1, reasons2,
                    loop_state, try_i, ret >>

\* MissingByPosition with <= in place of <
MissingByPosition_OffByOne(count) ==
    [p \in {q \in DOMAIN SQUAD_RULES : Get(count, q) <= SQUAD_RULES[q]} |->
        [need |-> SQUAD_RULES[p], have |-> Get(count, p)]]

\* the positions whose raw count is below the rule, with need and have
MissingByPosition(count) ==
    [p \in {q \in DOMAIN SQUAD_RULES : Get(count, q) < SQUAD_RULES[q]} |->
        [need |-> SQUAD_RULES[p], have |-> Get(count, p)]]

\* rows -> buckets, the quick fail on raw counts, and the first statements of
\* _pick_starting_xi
FetchCandidates ==
    /\ pc = "fetch"
    /\ LET b == _build_candidate_buckets(db_rows)
           count == [p \in Positions |-> Len(b[p])]
           missing_by_position == MissingByPosition(count)
       IN  /\ buckets' = b
           /\ IF DOMAIN missing_by_position # {}
              THEN /\ response' = FailureResponse(ErrNotEnough,
                                      [missing_by_position |-> missing_by_position,
                                       candidates_count |-> count])
                   /\ now' = now + 1
                   /\ pc' = "done"
                   /\ UNCHANGED << sorted_buckets, selection, picks, reasons1,
                                   loop_state, phase >>
              ELSE /\ selected_ids' = {}
                   /\ team_counts' = EmptyDict
                   /\ total_have' = EmptyDict
                   /\ starting_have' = EmptyDict
                   /\ starting_rows' = << >>
                   /\ reasons1' = << >>
                   /\ ordered_points' = [p \in Positions |-> _sort_bucket(b[p], "points")]
                   /\ ordered_value' = [p \in Positions |-> _sort_bucket(b[p], "value")]
                   /\ remaining_budget' = budget_m
                   /\ cycle' = 0
                   /\ guard' = 0
                   /\ phase' = "starting"
                   /\ pc' = "xi_while"
                   /\ UNCHANGED << response, now, bench_rows, progress, pos_i >>
    /\ UNCHANGED << module_state, database, request, history, target_gw, reasons2,
                    try_i, ret >>

starting_done ==
    \A p \in DOMAIN STARTING_FORMATION : Get(starting_have, p) >= STARTING_FORMATION[p]

StartingWhile ==
    /\ pc = "xi_while"
    /\ IF starting_done
       THEN /\ pc' = "xi_return"
            /\ UNCHANGED << guard, reasons1, progress, pos_i >>
       ELSE IF guard + 1 > GuardStarting
       THEN /\ guard' = guard + 1
            /\ reasons1' = Append(reasons1, [tag |-> "", err |->
                              "Guard hit while building starting XI (unexpected loop).",
                              position |-> ""])
            /\ pc' = "xi_return"
            /\ UNCHANGED << progress, pos_i >>
       ELSE /\ guard' = guard + 1
            /\ progress' = FALSE
            /\ pos_i' = 1
            /\ pc' = "xi_for"
            /\ UNCHANGED reasons1
    /\ UNCHANGED << module_state, database, request, history, now, target_gw, phase,
                    buckets, sorted_buckets, selection, picks, reasons2, cycle,
                    try_i, ret, response >>

StartingFor ==
    /\ pc = "xi_for"
    /\ pos_i <= Len(POSITION_CYCLE)
    /\ IF Get(starting_have, POSITION_CYCLE[pos_i]) >= STARTING_FORMATION[POSITION_CYCLE[pos_i]]
       THEN /\ pos_i' = pos_i + 1
            /\ pc' = "xi_for"
       ELSE /\ pc' = "try_entry"
            /\ UNCHANGED pos_i
    /\ UNCHANGED << module_state, database, request, history, now, target_gw, phase,
                    buckets, sorted_buckets, selection, picks, reasons1, reasons2,
                    cycle, guard, progress, try_i, ret, response >>

\* StartingCycleEnd without the break of line 392: a pass without progress
\* is followed by another pass
StartingCycleEnd_NoBreak ==
    /\ pc = "xi_for"
    /\ pos_i > Len(POSITION_CYCLE)
    /\ reasons1' = IF ~progress
                   THEN AppendCapped(reasons1, [tag |-> "", err |->
                            "Cannot progress while building starting XI. Try relaxing filters.",
                            position |-> ""])
                   ELSE reasons1
    /\ cycle' = cycle + 1
    /\ pc' = "xi_while"
    /\ UNCHANGED << module_state, database, request, history, now, target_gw, phase,
                    buckets, sorted_buckets, selection, picks, reasons2, guard,
                    progress, pos_i, try_i, ret, response >>

StartingCycleEnd ==
    /\ pc = "xi_for"
    /\ pos_i > Len(POSITION_CYCLE)
    /\ IF ~progress
       THEN /\ reasons1' = AppendCapped(reasons1, [tag |-> "", err |->
                              "Cannot progress while building starting XI. Try relaxing filters.",
                              position |-> ""])
            /\ pc' = "xi_return"
            /\ UNCHANGED cycle
       ELSE /\ cycle' = cycle + 1
            /\ pc' = "xi_while"
            /\ UNCHANGED reasons1
    /\ UNCHANGED << module_state, database, request, history, now, target_gw, phase,
                    buckets, sorted_buckets, selection, picks, reasons2, guard,
                    progress, pos_i, try_i, ret, response >>

\* StartingAfterTry without "remaining_budget -= cost"
StartingAfterTry_NoDecrement ==
    /\ pc = "xi_got"
    /\ IF ret.row # None
       THEN /\ starting_rows' = Append(starting_rows, ret.row[1])
            /\ progress' = TRUE
            /\ UNCHANGED << reasons1, remaining_budget >>
       ELSE /\ reasons1' = IF ret.err # None
                           THEN AppendCapped(reasons1, [tag |-> StartingTag,
                                    err |-> ret.err[1].err, position |-> ret.err[1].position])
                           ELSE reasons1
            /\ UNCHANGED << starting_rows, remaining_budget, progress >>
    /\ pos_i' = pos_i + 1
    /\ pc' = "xi_for"
    /\ UNCHANGED << module_state, database, request, history, now, target_gw, phase,
                    buckets, sorted_buckets, selection, bench_rows, reasons2, cycle,
                    guard, try_i, ret, response >>

StartingAfterTry ==
    /\ pc = "xi_got"
    /\ IF ret.row # None
       THEN /\ starting_rows' = Append(starting_rows, ret.row[1])
            /\ remaining_budget' = remaining_budget - _calc_cost_m(ret.row[1].now_cost)
            /\ progress' = TRUE
            /\ UNCHANGED reasons1
       ELSE /\ reasons1' = IF ret.err # None
                           THEN AppendCapped(reasons1, [tag |-> StartingTag,
                                    err |-> ret.err[1].err, position |-> ret.err[1].position])
                           ELSE reasons1
            /\ UNCHANGED << starting_rows, remaining_budget, progress >>
    /\ pos_i' = pos_i + 1
    /\ pc' = "xi_for"
    /\ UNCHANGED << module_state, database, request, history, now, target_gw, phase,
                    buckets, sorted_buckets, selection, bench_rows, reasons2, cycle,
                    guard, try_i, ret, response >>

---------------------------------------------------------------------------
(* _try_pick_one *)

TryPickEntry ==
    /\ pc = "try_entry"
    /\ IF SQUAD_RULES[TryPos] - Get(total_have, TryPos) <= 0
       THEN /\ ret' = [row |-> None, err |-> Some([err |-> "already full for total squad.",
                                                  position |-> TryPos])]
            /\ pc' = ReturnPc
            /\ UNCHANGED try_i
       ELSE IF phase = "starting"
               /\ STARTING_FORMATION[TryPos] - Get(starting_have, TryPos) <= 0
       THEN /\ ret' = [row |-> None, err |-> Some([err |-> "already full for starting XI.",
                                                  position |-> TryPos])]
            /\ pc' = ReturnPc
            /\ UNCHANGED try_i
       ELSE /\ try_i' = 1
            /\ pc' = "try_loop"
            /\ UNCHANGED ret
    /\ UNCHANGED << module_state, database, request, history, now, target_gw, phase,
                    buckets, sorted_buckets, selection, picks, reasons1, reasons2,
                    loop_state, response >>

\* SkipRow without the test on selected_player_ids
SkipRow_NoSelectedTest(r) ==
    \/ Get(team_counts, r.team_id) >= max_per_team
    \/ _calc_cost_m(r.now_cost) > remaining_budget

\* SkipRow with the team test off by one: > instead of >=
SkipRow_TeamCapOffByOne(r) ==
    \/ r.id \in selected_ids
    \/ Get(team_counts, r.team_id) > max_per_team
    \/ _calc_cost_m(r.now_cost) > remaining_budget

\* SkipRow with the cost test off by one: >= instead of >
SkipRow_CostOffByOne(r) ==
    \/ r.id \in selected_ids
    \/ Get(team_counts, r.team_id) >= max_per_team
    \/ _calc_cost_m(r.now_cost) >= remaining_budget

\* the three "continue" tests before the hypothetical add
SkipRow(r) ==
    \/ r.id \in selected_ids
    \/ Get(team_counts, r.team_id) >= max_per_team
    \/ _calc_cost_m(r.now_cost) > remaining_budget

TryPickSkip ==
    /\ pc = "try_loop"
    /\ try_i <= Len(OrderedBucket)
    /\ SkipRow(TryRow)
    /\ try_i' = try_i + 1
    /\ UNCHANGED << module_state, database, request, history, now, target_gw, pc, phase,
                    buckets, sorted_buckets, selection, picks, reasons1, reasons2,
                    loop_state, ret, response >>

\* TryPickHypotheticalAdd without line 281, the increment of the team count
TryPickHypotheticalAdd_NoTeamCount ==
    /\ pc = "try_loop"
    /\ try_i <= Len(OrderedBucket)
    /\ ~SkipRow(TryRow)
    /\ selected_ids' = selected_ids \cup {TryRow.id}
    /\ total_have' = Put(total_have, TryPos, Get(total_have, TryPos) + 1)
    /\ starting_have' = IF phase = "starting"
                        THEN Put(starting_have, TryPos, Get(starting_have, TryPos) + 1)
                        ELSE starting_have
    /\ pc' = "try_check"
    /\ UNCHANGED << module_state, database, request, history, now, target_gw, phase,
                    buckets, sorted_buckets, picks, reasons1, reasons2, loop_state,
                    try_i, ret, response, team_counts >>

TryPickHypotheticalAdd ==
    /\ pc = "try_loop"
    /\ try_i <= Len(OrderedBucket)
    /\ ~SkipRow(TryRow)
    /\ selected_ids' = selected_ids \cup {TryRow.id}
    /\ team_counts' = Put(team_counts, TryRow.team_id, Get(team_counts, TryRow.team_id) + 1)
    /\ total_have' = Put(total_have, TryPos, Get(total_have, TryPos) + 1)
    /\ starting_have' = IF phase = "starting"
                        THEN Put(starting_have, TryPos, Get(starting_have, TryPos) + 1)
                        ELSE starting_have
    /\ pc' = "try_check"
    /\ UNCHANGED << module_state, database, request, history, now, target_gw, phase,
                    buckets, sorted_buckets, picks, reasons1, reasons2, loop_state,
                    try_i, ret, response >>

\* Feasible that keeps every hypothetical add without asking the oracle
Feasible_Always == TRUE

\* Feasible whose budget comparison has no tolerance and is strict
Feasible_StrictBudget ==
    _can_complete_squad_Strict(remaining_budget - _calc_cost_m(TryRow.now_cost),
                               _remaining_needed(SQUAD_RULES, total_have),
                               buckets, selected_ids, team_counts, max_per_team)

\* Feasible asked with the budget from which the cost of TryRow is not taken off
Feasible_BudgetBeforeCost ==
    _can_complete_squad(remaining_budget,
                        _remaining_needed(SQUAD_RULES, total_have),
                        buckets, selected_ids, team_counts, max_per_team)

\* the feasibility check on the state with TryRow added
Feasible ==
    _can_complete_squad(remaining_budget - _calc_cost_m(TryRow.now_cost),
                        _remaining_needed(SQUAD_RULES, total_have),
                        buckets, selected_ids, team_counts, max_per_team)

TryPickKeep ==
    /\ pc = "try_check"
    /\ Feasible
    /\ ret' = [row |-> Some(TryRow), err |-> None]
    /\ pc' = ReturnPc
    /\ UNCHANGED << module_state, database, request, history, now, target_gw, phase,
                    buckets, sorted_buckets, selection, picks, reasons1, reasons2,
                    loop_state, try_i, response >>

\* TryPickRollback that deletes the entry of the team outright, without
\* the test "<= 0" of line 304
TryPickRollback_DeletesTeam ==
    /\ pc = "try_check"
    /\ ~Feasible
    /\ selected_ids' = selected_ids \ {TryRow.id}
    /\ team_counts' = Del(team_counts, TryRow.team_id)
    /\ total_have' = DecOrDel(total_have, TryPos)
    /\ starting_have' = IF phase = "starting" THEN DecOrDel(starting_have, TryPos)
                        ELSE starting_have
    /\ try_i' = try_i + 1
    /\ pc' = "try_loop"
    /\ UNCHANGED << module_state, database, request, history, now, target_gw, phase,
                    buckets, sorted_buckets, picks, reasons1, reasons2, loop_state,
                    ret, response >>

\* TryPickRollback that undoes the count in total_required, the module-level
\* SQUAD_RULES, instead of total_have
TryPickRollback_WrongDict ==
    /\ pc = "try_check"
    /\ ~Feasible
    /\ selected_ids' = selected_ids \ {TryRow.id}
    /\ team_counts' = DecOrDel(team_counts, TryRow.team_id)
    /\ SQUAD_RULES' = Put(SQUAD_RULES, TryPos, SQUAD_RULES[TryPos] - 1)
    /\ starting_have' = IF phase = "starting" THEN DecOrDel(starting_have, TryPos)
                        ELSE starting_have
    /\ try_i' = try_i + 1
    /\ pc' = "try_loop"
    /\ UNCHANGED << STARTING_FORMATION, total_have, database, request, history, now,
                    target_gw, phase, buckets, sorted_buckets, picks, reasons1,
                    reasons2, loop_state, ret, response >>

TryPickRollback ==
    /\ pc = "try_check"
    /\ ~Feasible
    /\ selected_ids' = selected_ids \ {TryRow.id}
    /\ team_counts' = DecOrDel(team_counts, TryRow.team_id)
    /\ total_have' = DecOrDel(total_have, TryPos)
    /\ starting_have' = IF phase = "starting" THEN DecOrDel(starting_have, TryPos)
                        ELSE starting_have
    /\ try_i' = try_i + 1
    /\ pc' = "try_loop"
    /\ UNCHANGED << module_state, database, request, history, now, target_gw, phase,
                    buckets, sorted_buckets, picks, reasons1, reasons2, loop_state,
                    ret, response >>

TryPickExhausted ==
    /\ pc = "try_loop"
    /\ try_i > Len(OrderedBucket)
    /\ ret' = [row |-> None, err |-> Some([err |-> "No feasible candidate under current constraints.",
                                          position |-> TryPos])]
    /\ pc' = ReturnPc
    /\ UNCHANGED << module_state, database, request, history, now, target_gw, phase,
                    buckets, sorted_buckets, selection, picks, reasons1, reasons2,
                    loop_state, try_i, response >>

---------------------------------------------------------------------------
(* back in recommend_squad: the starting XI check, then _pick_bench *)

\* StartingCheck that hands the bench phase an empty set of selected ids
\* instead of the ids of the starting picks (line 409)
StartingCheck_FreshSelectedIds ==
    /\ pc = "xi_return"
    /\ LET have == [p \in DOMAIN STARTING_FORMATION |-> CountPosition(starting_rows, p)]
           done == \A p \in DOMAIN STARTING_FORMATION : have[p] >= STARTING_FORMATION[p]
       IN  IF ~done
           THEN /\ response' = FailureResponse(ErrStarting,
                                   [reasons |-> reasons1,
                                    starting_have |-> have,
                                    spent_m |-> budget_m - remaining_budget,
                                    remaining_m |-> remaining_budget,
                                    team_counts |-> team_counts,
                                    candidates_count |-> candidates_count])
                /\ now' = now + 1
                /\ pc' = "done"
                /\ UNCHANGED << phase, selected_ids, bench_rows, reasons2,
                                ordered_value, guard >>
           ELSE /\ selected_ids' = {}
                /\ bench_rows' = << >>
                /\ reasons2' = << >>
                /\ ordered_value' = [p \in Positions |-> _sort_bucket(buckets[p], "value")]
                /\ guard' = 0
                /\ phase' = "bench"
                /\ pc' = "bench_while"
                /\ UNCHANGED << response, now >>
    /\ UNCHANGED << module_state, database, request, history, target_gw, buckets,
                    ordered_points, team_counts, total_have, starting_have,
                    starting_rows, remaining_budget, reasons1, cycle, progress,
                    pos_i, try_i, ret >>

StartingCheck ==
    /\ pc = "xi_return"
    /\ LET have == [p \in DOMAIN STARTING_FORMATION |-> CountPosition(starting_rows, p)]
           done == \A p \in DOMAIN STARTING_FORMATION : have[p] >= STARTING_FORMATION[p]
       IN  IF ~done
           THEN /\ response' = FailureResponse(ErrStarting,
                                   [reasons |-> reasons1,
                                    starting_have |-> have,
                                    spent_m |-> budget_m - remaining_budget,
                                    remaining_m |-> remaining_budget,
                                    team_counts |-> team_counts,
                                    candidates_count |-> candidates_count])
                /\ now' = now + 1
                /\ pc' = "done"
                /\ UNCHANGED << phase, selected_ids, bench_rows, reasons2,
                                ordered_value, guard >>
           ELSE /\ selected_ids' = {starting_rows[j].id : j \in 1..Len(starting_rows)}
                /\ bench_rows' = << >>
                /\ reasons2' = << >>
                /\ ordered_value' = [p \in Positions |-> _sort_bucket(buckets[p], "value")]
                /\ guard' = 0
                /\ phase' = "bench"
                /\ pc' = "bench_while"
                /\ UNCHANGED << response, now >>
    /\ UNCHANGED << module_state, database, request, history, target_gw, buckets,
                    ordered_points, team_counts, total_have, starting_have,
                    starting_rows, remaining_budget, reasons1, cycle, progress,
                    pos_i, try_i, ret >>

BenchWhile ==
    /\ pc = "bench_while"
    /\ IF ~(\E p \in DOMAIN SQUAD_RULES : Get(total_have, p) < SQUAD_RULES[p])
       THEN /\ pc' = "bench_return"
            /\ UNCHANGED << guard, reasons2, progress, pos_i >>
       ELSE IF guard + 1 > GuardBench
       THEN /\ guard' = guard + 1
            /\ reasons2' = Append(reasons2, [tag |-> "", err |->
                              "Guard hit while building bench (unexpected loop).",
                              position |-> ""])
            /\ pc' = "bench_return"
            /\ UNCHANGED << progress, pos_i >>
       ELSE /\ guard' = guard + 1
            /\ progress' = FALSE
            /\ pos_i' = 1
            /\ pc' = "bench_for"
            /\ UNCHANGED reasons2
    /\ UNCHANGED << module_state, database, request, history, now, target_gw, phase,
                    buckets, sorted_buckets, selection, picks, reasons1, cycle,
                    try_i, ret, response >>

BenchFor ==
    /\ pc = "bench_for"
    /\ pos_i <= Len(BENCH_ORDER)
    /\ IF SQUAD_RULES[BENCH_ORDER[pos_i]] - Get(total_have, BENCH_ORDER[pos_i]) <= 0
       THEN /\ pos_i' = pos_i + 1
            /\ pc' = "bench_for"
       ELSE /\ pc' = "try_entry"
            /\ UNCHANGED pos_i
    /\ UNCHANGED << module_state, database, request, history, now, target_gw, phase,
                    buckets, sorted_buckets, selection, picks, reasons1, reasons2,
                    cycle, guard, progress, try_i, ret, response >>

BenchCycleEnd ==
    /\ pc = "bench_for"
    /\ pos_i > Len(BENCH_ORDER)
    /\ IF ~progress
       THEN /\ reasons2' = AppendCapped(reasons2, [tag |-> "", err |->
                              "Cannot progress while building bench. Try relaxing filters.",
                              position |-> ""])
            /\ pc' = "bench_return"
       ELSE /\ pc' = "bench_while"
            /\ UNCHANGED reasons2
    /\ UNCHANGED << module_state, database, request, history, now, target_gw, phase,
                    buckets, sorted_buckets, selection, picks, reasons1, loop_state,
                    try_i, ret, response >>

\* BenchAfterTry without "remaining_budget_m -= cost"
BenchAfterTry_NoDecrement ==
    /\ pc = "bench_got"
    /\ IF ret.row # None
       THEN /\ bench_rows' = Append(bench_rows, ret.row[1])
            /\ progress' = TRUE
            /\ UNCHANGED << reasons2, remaining_budget >>
       ELSE /\ reasons2' = IF ret.err # None /\ Len(reasons2) < MaxReasons
                           THEN Append(reasons2, [tag |-> "[bench:value]",
                                    err |-> ret.err[1].err, position |-> ret.err[1].position])
                           ELSE reasons2
            /\ UNCHANGED << bench_rows, remaining_budget, progress >>
    /\ pos_i' = pos_i + 1
    /\ pc' = "bench_for"
    /\ UNCHANGED << module_state, database, request, history, now, target_gw, phase,
                    buckets, sorted_buckets, selection, starting_rows, reasons1, cycle,
                    guard, try_i, ret, response >>

BenchAfterTry ==
    /\ pc = "bench_got"
    /\ IF ret.row # None
       THEN /\ bench_rows' = Append(bench_rows, ret.row[1])
            /\ remaining_budget' = remaining_budget - _calc_cost_m(ret.row[1].now_cost)
            /\ progress' = TRUE
            /\ UNCHANGED reasons2
       ELSE /\ reasons2' = IF ret.err # None /\ Len(reasons2) < MaxReasons
                           THEN Append(reasons2, [tag |-> "[bench:value]",
                                    err |-> ret.err[1].err, position |-> ret.err[1].position])
                           ELSE reasons2
            /\ UNCHANGED << bench_rows, remaining_budget, progress >>
    /\ pos_i' = pos_i + 1
    /\ pc' = "bench_for"
    /\ UNCHANGED << module_state, database, request, history, now, target_gw, phase,
                    buckets, sorted_buckets, selection, starting_rows, reasons1, cycle,
                    guard, try_i, ret, response >>

\* the final verification and the response
VerifySquad ==
    /\ pc = "bench_return"
    /\ LET final_rows == starting_rows \o bench_rows
           final_have == [p \in DOMAIN SQUAD_RULES |-> CountPosition(final_rows, p)]
           squad_done == /\ \A p \in DOMAIN SQUAD_RULES : final_have[p] >= SQUAD_RULES[p]
                         /\ Len(final_rows) = SquadSize
       IN  IF ~squad_done
           THEN response' = FailureResponse(ErrSquad,
                                [reasons |-> reasons1 \o reasons2,
                                 have_by_position |-> final_have,
                                 spent_m |-> budget_m - remaining_budget,
                                 remaining_m |-> remaining_budget,
                                 team_counts |-> team_counts,
                                 candidates_count |-> candidates_count,
                                 hint |-> "Try relaxing filters (e.g., max_cost, min_predicted_points, or status=all)."])
           ELSE response' = SuccessResponse
    /\ now' = now + 1
    /\ pc' = "done"
    /\ UNCHANGED << module_state, database, request, history, target_gw, phase,
                    buckets, sorted_buckets, selection, picks, reasons1, reasons2,
                    loop_state, try_i, ret >>

---------------------------------------------------------------------------
(* The inputs: the database and the request *)

\* the three patterns a seed selects: team, cost and points
TeamPattern(seed) == seed % 3
CostPattern(seed) == (seed \div 3) % 3
PointsPattern(seed) == (seed \div 9) % 3

TeamOf(i, seed) ==
    IF TeamPattern(seed) < 2 THEN 1 + ((i \div (TeamPattern(seed) + 1)) % 16)
    ELSE 1 + (i % 5)
CostOf(i, seed) == 40 + 5 * ((i * (CostPattern(seed) + 1)) % 4)
PointsOf(i, seed) == (i * (PointsPattern(seed) + 2)) % 5

Reverse(s) == [j \in 1..Len(s) |-> s[Len(s) + 1 - j]]

\* count[p] rows of every position p, ids 1, 2, .. in the order GKP, DEF, MID,
\* FWD, one row of a position the optimizer does not know when unknown, the
\* whole list reversed for odd seeds
RECURSIVE RowsFrom(_, _, _, _)
RowsFrom(order, count, first, seed) ==
    IF order = << >> THEN << >>
    ELSE [j \in 1..count[Head(order)] |->
            Row(first + j, Head(order), TeamOf(first + j, seed),
                CostOf(first + j, seed), PointsOf(first + j, seed))]
         \o RowsFrom(Tail(order), count, first + count[Head(order)], seed)

PoolRows(count, unknown, seed) ==
    LET known == RowsFrom(PositionOrder, count, 0, seed)
        n == Len(known)
        all == IF unknown
               THEN Append(known, Row(n + 1, "UNK", TeamOf(n + 1, seed),
                                      CostOf(n + 1, seed), PointsOf(n + 1, seed)))
               ELSE known
    IN  IF seed % 2 = 1 THEN Reverse(all) ELSE all

\* the sum, over the positions, of the Quota cheapest rows of the position
CheapestSquadCost(rows) ==
    LET b == _build_candidate_buckets(rows)
    IN  SumSeq([j \in 1..Len(PositionOrder) |->
            _sum_cheapest_cost_m(PositionOrder[j], SQUAD_RULES_0[PositionOrder[j]],
                                 b, {}, EmptyDict, MaxPerTeamMax)[1]])

\* budgets around the cheapest squad of the pool, within the range of the Query
Budgets(rows) ==
    {b \in {CheapestSquadCost(rows) - 1, CheapestSquadCost(rows),
            CheapestSquadCost(rows) + 30, BudgetMax} : b >= BudgetMin /\ b <= BudgetMax}

\* the state in which a request with these parameters is at statement "at",
\* none of its locals assigned yet
EntryAt(at, rows, ngw, tgw, budget, cap) ==
    /\ SQUAD_RULES = SQUAD_RULES_0
    /\ STARTING_FORMATION = STARTING_FORMATION_0
    /\ next_gw = ngw
    /\ db_rows = rows
    /\ now = 1
    /\ req_target_gw = tgw
    /\ target_gw = None
    /\ budget_m = budget
    /\ max_per_team = cap
    /\ pc = at
    /\ phase = "starting"
    /\ buckets = [p \in Positions |-> << >>]
    /\ ordered_points = [p \in Positions |-> << >>]
    /\ ordered_value = [p \in Positions |-> << >>]
    /\ selected_ids = {}
    /\ team_counts = EmptyDict
    /\ total_have = EmptyDict
    /\ starting_have = EmptyDict
    /\ starting_rows = << >>
    /\ bench_rows = << >>
    /\ reasons1 = << >>
    /\ reasons2 = << >>
    /\ remaining_budget = budget
    /\ cycle = 0
    /\ guard = 0
    /\ progress = FALSE
    /\ pos_i = 1
    /\ try_i = 1
    /\ ret = NoReturn
    /\ response = NoResponse
    /\ run = 1
    /\ prev_response = NoResponse
    /\ prev_build = None

\* the state in which a request with these parameters enters recommend_squad
Entry(rows, ngw, tgw, budget, cap) == EntryAt("decide", rows, ngw, tgw, budget, cap)

\* how many of the first extra rows dealt in turn go to position p
ExtraFor(p, extra) ==
    Cardinality({e \in 1..extra : PositionOrder[((e - 1) % Len(PositionOrder)) + 1] = p})

\* pools with enough rows of every position
InitBuild ==
    \E seed \in 0..MaxSeed, extra \in 0..MaxExtraRows, cap \in MaxPerTeamMin..MaxPerTeamMax :
        LET rows == PoolRows([p \in Positions |-> SQUAD_RULES_0[p] + ExtraFor(p, extra)],
                             extra > 0, seed)
        IN  \E budget \in Budgets(rows) :
                Entry(rows, Some(8), IF seed % 2 = 0 THEN None ELSE Some(7), budget, cap)

\* pools in which the positions of short have no row (those of empty) or one
\* row too few
InitShort ==
    \E short \in (SUBSET Positions) \ {{}}, extra \in 0..MaxExtraRows : \E empty \in SUBSET short :
        LET count == [p \in Positions |->
                        IF p \in short THEN (IF p \in empty THEN 0 ELSE SQUAD_RULES_0[p] - 1)
                        ELSE SQUAD_RULES_0[p] + ExtraFor(p, extra)]
        IN  Entry(PoolRows(count, extra > 0, 0), Some(8), None, 1000, MaxPerTeamMax)

\* no gameweek is marked next
InitNoNext ==
    \E tgw \in {None, Some(7)}, extra \in 0..MaxExtraRows :
        Entry(PoolRows([p \in Positions |-> SQUAD_RULES_0[p] + ExtraFor(p, extra)], FALSE, 0),
              None, tgw, 1000, MaxPerTeamMax)

\* the process serves one request at a time
OneThread == thread = 1 /\ parked = None /\ overlapped = FALSE /\ alone = None

Init == (InitBuild \/ InitShort \/ InitNoNext) /\ OneThread

\* what a build leaves behind: the picks of the two loops in pick order,
\* their reasons and the budget left
Build ==
    [starting |-> starting_rows, bench |-> bench_rows, reasons1 |-> reasons1,
     reasons2 |-> reasons2, remaining_budget |-> remaining_budget]

\* the same process serves the same request once more: the locals of the
\* request are new, the module-level dicts, the database and the clock are not
Repeat ==
    /\ pc = "done"
    /\ run < MaxRuns
    /\ run' = run + 1
    /\ prev_response' = response
    /\ prev_build' = Some(Build)
    /\ response' = NoResponse
    /\ target_gw' = None
    /\ pc' = "decide"
    /\ phase' = "starting"
    /\ buckets' = [p \in Positions |-> << >>]
    /\ ordered_points' = [p \in Positions |-> << >>]
    /\ ordered_value' = [p \in Positions |-> << >>]
    /\ selected_ids' = {}
    /\ team_counts' = EmptyDict
    /\ total_have' = EmptyDict
    /\ starting_have' = EmptyDict
    /\ starting_rows' = << >>
    /\ bench_rows' = << >>
    /\ reasons1' = << >>
    /\ reasons2' = << >>
    /\ remaining_budget' = budget_m
    /\ cycle' = 0
    /\ guard' = 0
    /\ progress' = FALSE
    /\ pos_i' = 1
    /\ try_i' = 1
    /\ ret' = NoReturn
    /\ UNCHANGED << module_state, database, request, now, threads >>

\* the rows of the query in another order: last row first, or first row last
Reorderings(rows) ==
    {Reverse(rows), IF rows = << >> THEN rows ELSE Append(Tail(rows), Head(rows))}

\* the same request is served once more and the query, which has no ORDER BY,
\* returns the same rows in another order
Reorder ==
    /\ pc = "done"
    /\ run < MaxRuns
    /\ run' = run + 1
    /\ db_rows' \in Reorderings(db_rows)
    /\ prev_response' = response
    /\ prev_build' = Some(Build)
    /\ response' = NoResponse
    /\ target_gw' = None
    /\ pc' = "decide"
    /\ phase' = "starting"
    /\ buckets' = [p \in Positions |-> << >>]
    /\ ordered_points' = [p \in Positions |-> << >>]
    /\ ordered_value' = [p \in Positions |-> << >>]
    /\ selected_ids' = {}
    /\ team_counts' = EmptyDict
    /\ total_have' = EmptyDict
    /\ starting_have' = EmptyDict
    /\ starting_rows' = << >>
    /\ bench_rows' = << >>
    /\ reasons1' = << >>
    /\ reasons2' = << >>
    /\ remaining_budget' = budget_m
    /\ cycle' = 0
    /\ guard' = 0
    /\ progress' = FALSE
    /\ pos_i' = 1
    /\ try_i' = 1
    /\ ret' = NoReturn
    /\ UNCHANGED << module_state, next_gw, request, now, threads >>

Next ==
    \/ DecideTargetGw
    \/ FetchCandidates
    \/ StartingWhile
    \/ StartingFor
    \/ StartingCycleEnd
    \/ StartingAfterTry
    \/ TryPickEntry
    \/ TryPickSkip
    \/ TryPickHypotheticalAdd
    \/ TryPickKeep
    \/ TryPickRollback
    \/ TryPickExhausted
    \/ StartingCheck
    \/ BenchWhile
    \/ BenchFor
    \/ BenchCycleEnd
    \/ BenchAfterTry
    \/ VerifySquad

Spec == Init /\ [][Next]_vars

NextRepeat == Next \/ Repeat

SpecRepeat == Init /\ [][NextRepeat]_vars

NextReorder == Next \/ Reorder

SpecReorder == Init /\ [][NextReorder]_vars

---------------------------------------------------------------------------
(* The two rankings on their own: _pick_starting_xi sorts every bucket by  *)
(* "points" and by "value" before its loop.  The buckets here are short    *)
(* and made of rows that tie with each other in every way the sort keys    *)
(* can tie.                                                                *)

\* midfielders (id, team, cost, points): 1, 2, 3 tie on points and cost, 2 and
\* 3 on the team too; 4 ties with them on value, not on points; 5 ties with
\* them on points, not on cost; 6 costs nothing; 7 and 8 have no points
Palette ==
    << Row(1, "MID", 2, 40, 1), Row(2, "MID", 1, 40, 1), Row(3, "MID", 1, 40, 1),
       Row(4, "MID", 1, 80, 2), Row(5, "MID", 1, 80, 1), Row(6, "MID", 2, 0, 1),
       Row(7, "MID", 1, 45, 0), Row(8, "MID", 2, 50, 0), Row(9, "MID", 3, 45, 0) >>

\* the query returns up to MaxBucket of the first MaxPalette rows, in any order
PaletteBuckets ==
    LET n == IF MaxPalette < Len(Palette) THEN MaxPalette ELSE Len(Palette)
        chosen == UNION {[1..k -> 1..n] : k \in 0..MaxBucket}
    IN  {[j \in DOMAIN f |-> Palette[f[j]]] :
            f \in {g \in chosen : \A i, j \in DOMAIN g : i # j => g[i] # g[j]}}

InitSort ==
    \E rows \in PaletteBuckets :
        /\ EntryAt("sort", rows, Some(8), None, 1000, MaxPerTeamMax)
        /\ OneThread

\* lines 336-337 of _pick_starting_xi, on the buckets of the rows
SortBuckets ==
    /\ pc = "sort"
    /\ buckets' = _build_candidate_buckets(db_rows)
    /\ ordered_points' = [p \in Positions |->
                             _sort_bucket(_build_candidate_buckets(db_rows)[p], "points")]
    /\ ordered_value' = [p \in Positions |->
                            _sort_bucket(_build_candidate_buckets(db_rows)[p], "value")]
    /\ pc' = "sorted"
    /\ UNCHANGED << module_state, database, request, history, now, target_gw, phase,
                    selection, picks, reasons1, reasons2, loop_state, try_i, ret,
                    response >>

NextSort == SortBuckets

SpecSort == InitSort /\ [][NextSort]_vars

---------------------------------------------------------------------------
(* Two requests at once.  recommend_squad is a plain def endpoint, which   *)
(* the framework runs in a thread of its pool: two requests are two        *)
(* threads of one process that share the module-level dicts, the database  *)
(* and the clock, and nothing else.  The variables of the request hold the *)
(* locals of the running thread; the locals of the other thread are        *)
(* parked, and a switch of threads can happen between any two statements.  *)

\* the parameters and locals of the running request
Context ==
    [req_target_gw |-> req_target_gw, target_gw |-> target_gw, budget_m |-> budget_m,
     max_per_team |-> max_per_team, pc |-> pc, phase |-> phase, buckets |-> buckets,
     ordered_points |-> ordered_points, ordered_value |-> ordered_value,
     selected_ids |-> selected_ids, team_counts |-> team_counts,
     total_have |-> total_have, starting_have |-> starting_have,
     starting_rows |-> starting_rows, bench_rows |-> bench_rows,
     reasons1 |-> reasons1, reasons2 |-> reasons2,
     remaining_budget |-> remaining_budget, cycle |-> cycle, guard |-> guard,
     progress |-> progress, pos_i |-> pos_i, try_i |-> try_i, ret |-> ret,
     response |-> response]

\* the parameters and locals of a request that enters recommend_squad
FreshContext(tgw, budget, cap) ==
    [req_target_gw |-> tgw, target_gw |-> None, budget_m |-> budget,
     max_per_team |-> cap, pc |-> "decide", phase |-> "starting",
     buckets |-> [p \in Positions |-> << >>],
     ordered_points |-> [p \in Positions |-> << >>],
     ordered_value |-> [p \in Positions |-> << >>],
     selected_ids |-> {}, team_counts |-> EmptyDict,
     total_have |-> EmptyDict, starting_have |-> EmptyDict,
     starting_rows |-> << >>, bench_rows |-> << >>,
     reasons1 |-> << >>, reasons2 |-> << >>,
     remaining_budget |-> budget, cycle |-> 0, guard |-> 0,
     progress |-> FALSE, pos_i |-> 1, try_i |-> 1, ret |-> NoReturn,
     response |-> NoResponse]

\* the thread that owns ctx runs next
Resume(ctx) ==
    /\ req_target_gw' = ctx.req_target_gw
    /\ target_gw' = ctx.target_gw
    /\ budget_m' = ctx.budget_m
    /\ max_per_team' = ctx.max_per_team
    /\ pc' = ctx.pc
    /\ phase' = ctx.phase
    /\ buckets' = ctx.buckets
    /\ ordered_points' = ctx.ordered_points
    /\ ordered_value' = ctx.ordered_value
    /\ selected_ids' = ctx.selected_ids
    /\ team_counts' = ctx.team_counts
    /\ total_have' = ctx.total_have
    /\ starting_have' = ctx.starting_have
    /\ starting_rows' = ctx.starting_rows
    /\ bench_rows' = ctx.bench_rows
    /\ reasons1' = ctx.reasons1
    /\ reasons2' = ctx.reasons2
    /\ remaining_budget' = ctx.remaining_budget
    /\ cycle' = ctx.cycle
    /\ guard' = ctx.guard
    /\ progress' = ctx.progress
    /\ pos_i' = ctx.pos_i
    /\ try_i' = ctx.try_i
    /\ ret' = ctx.ret
    /\ response' = ctx.response

\* a build is in the middle of its loops
MidBuild(at) == at \notin {"decide", "fetch", "done"}

\* Switch in a program whose team_counts is one module-level dict instead of
\* a local of _pick_starting_xi: the running thread finds the counts the
\* other thread left
Switch_SharedTeamCounts ==
    /\ alone = None
    /\ parked # None
    /\ parked[1].pc # "done"
    /\ parked' = Some(Context)
    /\ Resume([parked[1] EXCEPT !.team_counts = team_counts])
    /\ thread' = 3 - thread
    /\ overlapped' = (overlapped \/ (MidBuild(pc) /\ MidBuild(parked[1].pc)))
    /\ UNCHANGED << module_state, database, now, run, prev_response, prev_build, alone >>

\* the scheduler gives the processor to the other thread, which has
\* statements left to run
Switch ==
    /\ alone = None
    /\ parked # None
    /\ parked[1].pc # "done"
    /\ parked' = Some(Context)
    /\ Resume(parked[1])
    /\ thread' = 3 - thread
    /\ overlapped' = (overlapped \/ (MidBuild(pc) /\ MidBuild(parked[1].pc)))
    /\ UNCHANGED << module_state, database, now, run, prev_response, prev_build, alone >>

\* both requests have returned; the request of thread t is served once more,
\* by a fresh process (the module-level dicts as the module defines them)
\* and with no other request beside it
RunAlone ==
    /\ alone = None
    /\ parked # None
    /\ pc = "done"
    /\ parked[1].pc = "done"
    /\ \E t \in {1, 2} :
          LET mine == IF t = thread THEN Context ELSE parked[1]
              other == IF t = thread THEN parked[1] ELSE Context
          IN  /\ alone' = Some([of |-> t, interleaved |-> mine.response])
              /\ parked' = Some(other)
              /\ thread' = t
              /\ Resume(FreshContext(mine.req_target_gw, mine.budget_m, mine.max_per_team))
    /\ SQUAD_RULES' = SQUAD_RULES_0
    /\ STARTING_FORMATION' = STARTING_FORMATION_0
    /\ UNCHANGED << database, now, run, prev_response, prev_build, overlapped >>

\* two requests on the same pool, with budgets and caps of their own
InitTwo ==
    \E seed \in 0..MaxSeedTwo :
        LET rows == PoolRows([p \in Positions |-> SQUAD_RULES_0[p] + ExtraFor(p, seed + 3)],
                             TRUE, seed)
        IN  \E b1 \in {CheapestSquadCost(rows) - 1, CheapestSquadCost(rows)} :
                /\ Entry(rows, Some(8), None, b1, MaxPerTeamMax)
                /\ thread = 1
                /\ parked = Some(FreshContext(None, BudgetMax, MaxPerTeamMax - 1))
                /\ overlapped = FALSE
                /\ alone = None

NextInterleaved == Next \/ Switch \/ RunAlone

SpecInterleaved == InitTwo /\ [][NextInterleaved]_vars

---------------------------------------------------------------------------
(* Vocabulary of the properties *)

\* the request ended with the success response
Succeeded == pc = "done" /\ "summary" \in DOMAIN response
\* the request ended with a failure response
Failed == pc = "done" /\ "error" \in DOMAIN response

IdsOf(items) == [j \in 1..Len(items) |-> items[j].player_id]
ToSet(s) == {s[j] : j \in 1..Len(s)}
NoDuplicates(s) == Cardinality(ToSet(s)) = Len(s)
\* the player ids of the starting picks and of the bench picks of the response
ResponseStartingIds == IdsOf(_flatten_pos_dict(response.starting_xi))
ResponseBenchIds == IdsOf(_flatten_pos_dict(response.bench))

\* rows of the pool (whatever their position) with id in ids
RowsWithIds(ids) == SelectSeq(db_rows, LAMBDA r : r.id \in ids)
CostOfRows(rows) == SumSeq([j \in 1..Len(rows) |-> rows[j].now_cost])
TeamsOfPool == {db_rows[j].team_id : j \in 1..Len(db_rows)}
\* how many rows of a list belong to team t
CountTeam(rows, t) == Len(SelectSeq(rows, LAMBDA r : r.team_id = t))

\* the numbers the specification gives for Quota and Formation
QuotaClaimed == [p \in Positions |->
    CASE p = "GKP" -> 2 [] p = "DEF" -> 5 [] p = "MID" -> 5 [] p = "FWD" -> 3]
FormationClaimed == [p \in Positions |->
    CASE p = "GKP" -> 1 [] p = "DEF" -> 3 [] p = "MID" -> 4 [] p = "FWD" -> 3]
TotalQuotaClaimed == SumSeq([j \in 1..Len(PositionOrder) |-> QuotaClaimed[PositionOrder[j]]])

---------------------------------------------------------------------------
(* C1: in every successful build the starting picks and the bench picks    *)
(* are each free of duplicates, share no id, and together hold exactly 15  *)
(* distinct ids, the sum of Quota over the roles.                          *)
C1_DisjointPicks ==
    Succeeded =>
        /\ NoDuplicates(ResponseStartingIds)
        /\ NoDuplicates(ResponseBenchIds)
        /\ ToSet(ResponseStartingIds) \cap ToSet(ResponseBenchIds) = {}
        /\ Cardinality(ToSet(ResponseStartingIds) \cup ToSet(ResponseBenchIds))
             = TotalQuotaClaimed
        /\ TotalQuotaClaimed = 15

\* a successful build out of a pool that holds more rows than the squad needs
C1_Witness == Succeeded /\ Len(db_rows) > 15

(* C2: in every successful build the picks of every role r number exactly  *)
(* Quota[r] (GKP 2, DEF 5, MID 5, FWD 3) and the starting picks of role r  *)
(* exactly Formation[r] (GKP 1, DEF 3, MID 4, FWD 3).                      *)
C2_QuotaAndFormation ==
    Succeeded =>
        \A p \in Positions :
            /\ Len(response.starting_xi[p]) = FormationClaimed[p]
            /\ Len(response.starting_xi[p]) + Len(response.bench[p]) = QuotaClaimed[p]
            /\ \A j \in 1..Len(response.starting_xi[p]) :
                   response.starting_xi[p][j].position = p
            /\ \A j \in 1..Len(response.bench[p]) : response.bench[p][j].position = p
            /\ CountPosition(starting_rows, p) = FormationClaimed[p]
            /\ CountPosition(starting_rows \o bench_rows, p) = QuotaClaimed[p]

\* a successful build in which every role had more candidates than its quota
C2_Witness ==
    /\ Succeeded
    /\ \A p \in Positions : Len(buckets[p]) > QuotaClaimed[p]

(* C3: in every state of a build, the state between a hypothetical add and *)
(* its feasibility check included, no team has more than max_per_team      *)
(* selected candidates, by the stored counts and by counting the selected  *)
(* rows; the picks of a response obey the same cap.                        *)
C3_TeamCap ==
    /\ \A t \in DOMAIN team_counts : team_counts[t] <= max_per_team
    /\ \A t \in TeamsOfPool : CountTeam(RowsWithIds(selected_ids), t) <= max_per_team
    /\ \A t \in TeamsOfPool : CountTeam(starting_rows \o bench_rows, t) <= max_per_team

\* right after a hypothetical add that brings a team to the cap of 3, while
\* the ranked list still holds an unselected row of that team
C3_Witness ==
    /\ pc = "try_check"
    /\ max_per_team = 3
    /\ team_counts[TryRow.team_id] = 3
    /\ \E j \in 1..Len(OrderedBucket) :
           /\ OrderedBucket[j].team_id = TryRow.team_id
           /\ OrderedBucket[j].id \notin selected_ids

(* C4: at every point of a build the costs of the committed picks sum to   *)
(* the spent amount, which is at most the budget, and the spent amount     *)
(* never decreases from one state to the next.                             *)
Spent == budget_m - remaining_budget
CommittedWithinBudget ==
    /\ CostOfRows(starting_rows \o bench_rows) <= budget_m
    /\ Spent <= budget_m
    /\ (pc \in {"xi_while", "xi_for", "try_entry", "try_loop", "try_check", "xi_return",
                "bench_while", "bench_for", "bench_return", "done"}
          => Spent = CostOfRows(starting_rows \o bench_rows))
C4_Budget ==
    /\ [](CommittedWithinBudget)
    /\ [][(budget_m - remaining_budget') >= (budget_m - remaining_budget)]_vars

\* a build that has committed picks and has spent the whole budget
C4_Witness ==
    /\ Succeeded
    /\ remaining_budget = 0

(* C5: the oracle is sound.  Whenever _can_complete_squad answers False on *)
(* the state of a hypothetical add, no set of unselected rows of the pool  *)
(* fills the remaining need of every role within the remaining budget and  *)
(* the team cap; whenever such a set exists, the oracle answers True.      *)
\* the sets of k elements of S
KSubsets(S, k) == {T \in SUBSET S : Cardinality(T) = k}
\* the rows of position p not selected yet
Unselected(p, selected) == {r \in ToSet(buckets[p]) : r.id \notin selected}
\* the cost of a set of rows
CostOfSet(S) == SumSeq([j \in 1..Len(db_rows) |->
                    IF db_rows[j] \in S THEN db_rows[j].now_cost ELSE 0])
\* no team above the cap once the rows of S are added to the counts
WithinCap(S, counts, cap) ==
    \A r \in S : Get(counts, r.team_id) + Cardinality({q \in S : q.team_id = r.team_id}) <= cap
\* a valid completion, by exhaustive search over the pool: need[p] unselected
\* rows of every position p, their cost within the budget, and no team above
\* the cap once they are added to the counts (a choice for some of the roles
\* that already breaks the cap is not extended: more rows never lower a count)
CompletionExists(budget, need, selected, counts, cap) ==
    LET Gs == KSubsets(Unselected("GKP", selected), need["GKP"])
        Ds == KSubsets(Unselected("DEF", selected), need["DEF"])
        Ms == KSubsets(Unselected("MID", selected), need["MID"])
        Fs == KSubsets(Unselected("FWD", selected), need["FWD"])
    IN  \E G \in Gs : \E F \in Fs :
            /\ WithinCap(G \cup F, counts, cap)
            /\ \E D \in Ds :
                /\ WithinCap(G \cup F \cup D, counts, cap)
                /\ \E M \in Ms :
                    /\ WithinCap(G \cup F \cup D \cup M, counts, cap)
                    /\ CostOfSet(G \cup F \cup D \cup M) <= budget
C5_OracleSound ==
    (pc = "try_check" /\ ~Feasible) =>
        ~CompletionExists(remaining_budget - TryRow.now_cost,
                          _remaining_needed(QuotaClaimed, total_have),
                          selected_ids, team_counts, max_per_team)

\* the oracle answers False on a state whose remaining quantity is available
\* in every role: the refusal rests on the budget bound
C5_Witness ==
    /\ pc = "try_check"
    /\ ~Feasible
    /\ \A p \in Positions :
           Len(Available(buckets[p], selected_ids, team_counts, max_per_team))
             >= _remaining_needed(QuotaClaimed, total_have)[p]

(* C6, as claimed: when the same process serves the same request again on *)
(* the same rows in the same order, the second response is identical to    *)
(* the first.                                                              *)
C6_Original == (pc = "done" /\ run > 1) => response = prev_response

(* C6, amended: when the same process serves the same request again on the *)
(* same rows in the same order, the second response equals the first in    *)
(* every field but generated_at: the same starting picks, bench picks,     *)
(* pick order, lists, summary with the spent amount, error and             *)
(* diagnostics.                                                            *)
WithoutClock(r) == [k \in (DOMAIN r) \ {"generated_at"} |-> r[k]]
C6_Deterministic ==
    (pc = "done" /\ run > 1) => WithoutClock(response) = WithoutClock(prev_response)

\* a second successful build out of a pool larger than the squad; the clock
\* has moved between the two responses
C6_Witness ==
    /\ Succeeded
    /\ run = 2
    /\ Len(db_rows) > 15
    /\ response.generated_at # prev_response.generated_at

(* C7, as claimed: every failure response, the one for no next gameweek    *)
(* included, carries target_gw, model_name, filters, error and diagnostics.*)
FailureFields == {"target_gw", "model_name", "filters", "error", "diagnostics"}
C7_Original == Failed => FailureFields \subseteq DOMAIN response

(* C7, amended: a request always ends with a response value.  The failure  *)
(* for no next gameweek carries the error string and nothing else; every   *)
(* other failure (not enough candidates, stuck in the starting XI, stuck   *)
(* in the bench) carries target_gw, model_name, the echoed filters, the    *)
(* error string and a diagnostics object with the candidate counts and     *)
(* either missing_by_position or reasons.                                  *)
C7_FailureShape ==
    /\ pc = "done" => (Failed \/ Succeeded)
    /\ Failed =>
        IF response.error = ErrNoNext
        THEN /\ DOMAIN response = {"error"}
             /\ req_target_gw = None
             /\ next_gw = None
        ELSE /\ FailureFields \subseteq DOMAIN response
             /\ response.error \in {ErrNotEnough, ErrStarting, ErrSquad}
             /\ response.target_gw = target_gw[1]
             /\ response.model_name = MODEL_NAME
             /\ response.filters = Filters
             /\ "candidates_count" \in DOMAIN response.diagnostics
             /\ IF response.error = ErrNotEnough
                THEN "missing_by_position" \in DOMAIN response.diagnostics
                ELSE "reasons" \in DOMAIN response.diagnostics

\* the rarest failure: the starting XI was built and the bench got stuck
C7_Witness ==
    /\ Failed
    /\ response.error = ErrSquad
    /\ Len(starting_rows) = 11

(* C8: when the raw count of some role is below its quota, the request,    *)
(* once past the fetch, has ended with the not-enough-candidates failure,  *)
(* whose missing_by_position holds exactly the short roles with            *)
(* need = Quota and have = the raw count, and nothing was ever picked;     *)
(* when no role is short that failure is never returned.                   *)
RawCount(p) == Len(SelectSeq(db_rows, LAMBDA r : r.position = p))
ShortRoles == {p \in Positions : RawCount(p) < QuotaClaimed[p]}
PastFetch == pc \notin {"decide", "fetch"} /\ target_gw # None
C8_InsufficientCandidates ==
    /\ (PastFetch /\ ShortRoles # {}) =>
          /\ Failed
          /\ response.error = ErrNotEnough
          /\ response.diagnostics.missing_by_position =
                [p \in ShortRoles |-> [need |-> QuotaClaimed[p], have |-> RawCount(p)]]
          /\ selected_ids = {}
          /\ starting_rows = << >>
          /\ bench_rows = << >>
          /\ try_i = 1
          /\ guard = 0
    /\ (Failed /\ response.error = ErrNotEnough) => ShortRoles # {}

\* the pool misses one role entirely and is short by one in another
C8_Witness ==
    /\ Failed
    /\ response.error = ErrNotEnough
    /\ \E p, q \in ShortRoles :
           /\ RawCount(p) = 0
           /\ RawCount(q) = QuotaClaimed[q] - 1
           /\ q # p

(* C9: when no role is short and the budget is below the sum, over the     *)
(* roles, of the Quota cheapest candidates of the role, the request ends   *)
(* with the stuck-starting or the stuck-bench failure, with at least one   *)
(* reason, and the response holds no starting_xi, bench, bench_list or     *)
(* squad_list.                                                             *)
CheapestClaimed ==
    SumSeq([j \in 1..Len(PositionOrder) |->
        LET ofRole == SelectSeq(db_rows, LAMBDA r : r.position = PositionOrder[j])
            costs == SortedAscending([i \in 1..Len(ofRole) |-> ofRole[i].now_cost], << >>)
        IN  SumSeq(SubSeq(costs, 1, QuotaClaimed[PositionOrder[j]]))])
C9_BudgetTooLow ==
    (pc = "done" /\ target_gw # None /\ ShortRoles = {} /\ budget_m < CheapestClaimed) =>
        /\ Failed
        /\ response.error \in {ErrStarting, ErrSquad}
        /\ Len(response.diagnostics.reasons) >= 1
        /\ (DOMAIN response) \cap {"starting_xi", "bench", "bench_list", "squad_list", "summary"} = {}

\* the budget is one tenth below the cheapest squad of the pool
C9_Witness ==
    /\ Failed
    /\ ShortRoles = {}
    /\ budget_m = CheapestClaimed - 1
    /\ response.error = ErrStarting

(* C10: when the pool holds exactly Quota[r] candidates of every role,     *)
(* their total cost is within the budget and no team has more than         *)
(* max_per_team of them, the build succeeds, selects every candidate of    *)
(* the pool, and bench_list has exactly 4 entries.                         *)
ExactPool ==
    /\ \A p \in Positions : RawCount(p) = QuotaClaimed[p]
    /\ Len(db_rows) = TotalQuotaClaimed
    /\ CostOfRows(db_rows) <= budget_m
    /\ \A t \in TeamsOfPool : CountTeam(db_rows, t) <= max_per_team
C10_ExactPoolSucceeds ==
    (pc = "done" /\ target_gw # None /\ ExactPool) =>
        /\ Succeeded
        /\ ToSet(ResponseStartingIds) \cup ToSet(ResponseBenchIds)
             = {db_rows[j].id : j \in 1..Len(db_rows)}
        /\ Len(response.bench_list) = 4

\* an exact pool whose cost is the whole budget and in which some team has
\* as many candidates as the cap of 3 allows
C10_Witness ==
    /\ Succeeded
    /\ ExactPool
    /\ CostOfRows(db_rows) = budget_m
    /\ max_per_team = 3
    /\ \E t \in TeamsOfPool : CountTeam(db_rows, t) = 3

(* C11: in every successful response bench_list has exactly 4 entries,     *)
(* holds each of the 4 bench picks exactly once, has the bench goalkeeper  *)
(* in its first slot and after it the outfield bench picks ordered DEF     *)
(* before MID before FWD, in pick order within a position.                 *)
OutfieldRank(p) == CASE p = "DEF" -> 1 [] p = "MID" -> 2 [] p = "FWD" -> 3 [] OTHER -> 0
\* the place of player id in the order the bench was picked
BenchPickIndex(id) == CHOOSE j \in 1..Len(bench_rows) : bench_rows[j].id = id
C11_BenchList ==
    Succeeded =>
        LET bl == response.bench_list
        IN  /\ Len(bl) = 4
            /\ Len(bench_rows) = 4
            /\ NoDuplicates(IdsOf(bl))
            /\ ToSet(IdsOf(bl)) = {bench_rows[j].id : j \in 1..4}
            /\ bl[1].position = "GKP"
            /\ \A j \in 2..4 : bl[j].position \in {"DEF", "MID", "FWD"}
            /\ \A i, j \in 2..4 : i < j =>
                 \/ OutfieldRank(bl[i].position) < OutfieldRank(bl[j].position)
                 \/ /\ bl[i].position = bl[j].position
                    /\ BenchPickIndex(bl[i].player_id) < BenchPickIndex(bl[j].player_id)

\* the bench was picked in an order that is not the order of bench_list: a
\* midfielder was picked before the last defender
C11_Witness ==
    /\ Succeeded
    /\ IdsOf(response.bench_list) # [j \in 1..Len(bench_rows) |-> bench_rows[j].id]
    /\ \E i, j \in 1..Len(bench_rows) :
          i < j /\ bench_rows[i].position = "MID" /\ bench_rows[j].position = "DEF"

(* C12: in every successful response squad_list has exactly 15 entries in  *)
(* which every selected player appears exactly once: first the 11 starting *)
(* picks grouped by position in the order GKP, DEF, MID, FWD, tagged       *)
(* role "starting" with slot 1..11 in list order, then the 4 entries of    *)
(* bench_list in bench_list order, tagged role "bench" with slot 1..4.     *)
PositionRank(p) == CASE p = "GKP" -> 0 [] OTHER -> OutfieldRank(p)
C12_SquadList ==
    Succeeded =>
        LET sl == response.squad_list
            ids == [j \in 1..Len(sl) |-> sl[j].item.player_id]
        IN  /\ Len(sl) = 15
            /\ NoDuplicates(ids)
            /\ ToSet(ids) = selected_ids
            /\ ToSet(ids) = {r.id : r \in ToSet(starting_rows \o bench_rows)}
            /\ \A j \in 1..11 :
                 /\ sl[j].role = "starting"
                 /\ sl[j].slot = j
                 /\ sl[j].item.player_id \in {r.id : r \in ToSet(starting_rows)}
            /\ \A i, j \in 1..11 : i < j =>
                 PositionRank(sl[i].item.position) <= PositionRank(sl[j].item.position)
            /\ \A j \in 1..4 :
                 /\ sl[11 + j].role = "bench"
                 /\ sl[11 + j].slot = j
                 /\ sl[11 + j].item = response.bench_list[j]

\* the starting XI was picked forwards first, yet squad_list opens with the
\* goalkeeper
C12_Witness ==
    /\ Succeeded
    /\ starting_rows[1].position = "FWD"
    /\ response.squad_list[1].item.position = "GKP"
    /\ response.squad_list[15].item.position = "MID"

(* C13: every stuck failure response (starting XI or bench) carries at     *)
(* least 1 and at most 6 reasons; the reasons of the bench failure are the *)
(* reasons of the starting phase followed by those of the bench phase, and *)
(* the bound holds for that concatenation.                                 *)
StuckFailure == Failed /\ response.error \in {ErrStarting, ErrSquad}
C13_ReasonsBounded ==
    /\ StuckFailure =>
          /\ Len(response.diagnostics.reasons) >= 1
          /\ Len(response.diagnostics.reasons) <= 6
    /\ (Failed /\ response.error = ErrStarting) => response.diagnostics.reasons = reasons1
    /\ (Failed /\ response.error = ErrSquad) =>
          /\ response.diagnostics.reasons = reasons1 \o reasons2
          /\ Len(reasons1) + Len(reasons2) <= 6

\* a stuck failure with the full 6 reasons
C13_Witness ==
    /\ StuckFailure
    /\ Len(response.diagnostics.reasons) = 6

(* C14: once the target gameweek has been decided: a request without       *)
(* target_gw, when no gameweek is marked next, has ended with the          *)
(* no-next-gameweek error and no candidate was fetched or picked; a        *)
(* request without target_gw, when a gameweek is marked next, uses that    *)
(* gameweek; a request with target_gw uses it unchanged and never gets the *)
(* no-next-gameweek error.                                                 *)
NothingFetchedOrPicked ==
    /\ \A p \in Positions : buckets[p] = << >>
    /\ selected_ids = {}
    /\ starting_rows = << >>
    /\ bench_rows = << >>
    /\ try_i = 1
C14_TargetResolution ==
    pc # "decide" =>
        /\ (req_target_gw = None /\ next_gw = None) =>
              /\ pc = "done"
              /\ response = [error |-> ErrNoNext]
              /\ target_gw = None
              /\ NothingFetchedOrPicked
        /\ (req_target_gw = None /\ next_gw # None) =>
              /\ target_gw = next_gw
              /\ (pc = "done" => response.target_gw = next_gw[1])
        /\ req_target_gw # None =>
              /\ target_gw = req_target_gw
              /\ (pc = "done" => response.target_gw = req_target_gw[1])
              /\ (Failed => response.error # ErrNoNext)

\* the no-next-gameweek failure, with candidates in the database
C14_Witness ==
    /\ Failed
    /\ response.error = ErrNoNext
    /\ Len(db_rows) >= 15

SameAsAlone ==
    (alone # None /\ pc = "done") =>
        WithoutClock(response) = WithoutClock(alone[1].interleaved)
NoSharedWrite ==
    /\ SQUAD_RULES' = SQUAD_RULES
    /\ STARTING_FORMATION' = STARTING_FORMATION
    /\ db_rows' = db_rows
    /\ next_gw' = next_gw
    /\ (thread' = thread /\ alone' = alone) =>
          /\ parked' = parked
          /\ pc # "fetch" => buckets' = buckets
    /\ (thread' # thread /\ alone' = alone) =>
          /\ Context' = parked[1]
          /\ parked' = Some(Context)
C16_Independent == [](SameAsAlone) /\ [][NoSharedWrite]_vars

\* a request served alone has returned the success it returned when it ran
\* between the statements of another request, one with another budget and
\* another cap that succeeded with other picks
C16_Witness ==
    /\ alone # None
    /\ Succeeded
    /\ overlapped
    /\ "summary" \in DOMAIN alone[1].interleaved
    /\ parked[1].budget_m # budget_m
    /\ parked[1].max_per_team # max_per_team
    /\ "summary" \in DOMAIN parked[1].response
    /\ parked[1].response.squad_list # response.squad_list

(* C17, as claimed: the "points" ranking lists a bucket by descending      *)
(* points, ties broken by descending cost, then descending team id, then   *)
(* descending player id.                                                   *)
Sorted(s, Before(_, _)) == \A i, j \in 1..Len(s) : i < j => Before(s[i], s[j])
ClaimedPointsBefore(a, b) ==
    TupleLess(<< b.predicted_points, b.now_cost, b.team_id, b.id >>,
              << a.predicted_points, a.now_cost, a.team_id, a.id >>)
C17_Original == pc = "sorted" => Sorted(ordered_points["MID"], ClaimedPointsBefore)

(* C17, amended: the "points" ranking lists the rows of a bucket by        *)
(* descending points, ties broken by ascending cost, then ascending team   *)
(* id, then ascending player id; the order is total, so for rows of        *)
(* distinct ids the ranked list is the same for every order of the bucket. *)
PointsBefore(a, b) ==
    \/ a.predicted_points > b.predicted_points
    \/ /\ a.predicted_points = b.predicted_points
       /\ TupleLess(<< a.now_cost, a.team_id, a.id >>, << b.now_cost, b.team_id, b.id >>)
Reordered(s, f) == [j \in 1..Len(s) |-> s[f[j]]]
C17_PointsRanking ==
    pc = "sorted" =>
        /\ Len(ordered_points["MID"]) = Len(buckets["MID"])
        /\ ToSet(ordered_points["MID"]) = ToSet(buckets["MID"])
        /\ Sorted(ordered_points["MID"], PointsBefore)
        /\ \A f \in Permutations(1..Len(buckets["MID"])) :
              _sort_bucket(Reordered(buckets["MID"], f), "points") = ordered_points["MID"]

\* a ranked bucket in which the cost, the team and the id each decide a tie,
\* and which the query returned in another order
C17_Witness ==
    /\ pc = "sorted"
    /\ ordered_points["MID"] # buckets["MID"]
    /\ LET s == ordered_points["MID"]
       IN  /\ \E i \in 1..(Len(s) - 1) :
                 /\ s[i].predicted_points = s[i + 1].predicted_points
                 /\ s[i].now_cost < s[i + 1].now_cost
           /\ \E i \in 1..(Len(s) - 1) :
                 /\ s[i].predicted_points = s[i + 1].predicted_points
                 /\ s[i].now_cost = s[i + 1].now_cost
                 /\ s[i].team_id < s[i + 1].team_id
                 /\ s[i].id > s[i + 1].id
           /\ \E i \in 1..(Len(s) - 1) :
                 /\ s[i].predicted_points = s[i + 1].predicted_points
                 /\ s[i].now_cost = s[i + 1].now_cost
                 /\ s[i].team_id = s[i + 1].team_id
                 /\ s[i].id < s[i + 1].id

(* C18: the "value" ranking lists the rows of a bucket by descending       *)
(* value, the value being points divided by cost with a cost of zero       *)
(* replaced by a small positive floor; rows of equal value are listed by   *)
(* descending points; rows equal in both keep the order they have in the   *)
(* bucket.                                                                 *)
\* cost in tenths, value compared as a fraction; the floor is 0.1, one tenth
ClaimedCost(r) == IF r.now_cost = 0 THEN 1 ELSE r.now_cost
ValueCompare(a, b) == a.predicted_points * ClaimedCost(b) - b.predicted_points * ClaimedCost(a)
IndexIn(s, r) == CHOOSE j \in 1..Len(s) : s[j] = r
ValueBefore(a, b) ==
    \/ ValueCompare(a, b) > 0
    \/ /\ ValueCompare(a, b) = 0
       /\ a.predicted_points > b.predicted_points
    \/ /\ ValueCompare(a, b) = 0
       /\ a.predicted_points = b.predicted_points
       /\ IndexIn(buckets["MID"], a) < IndexIn(buckets["MID"], b)
C18_ValueRanking ==
    pc = "sorted" =>
        /\ Len(ordered_value["MID"]) = Len(buckets["MID"])
        /\ ToSet(ordered_value["MID"]) = ToSet(buckets["MID"])
        /\ Sorted(ordered_value["MID"], ValueBefore)

\* a ranked bucket with a row that costs nothing, two rows of equal value and
\* different points, and two rows equal in both keys that the bucket holds
\* against the order of their ids
C18_Witness ==
    /\ pc = "sorted"
    /\ Len(ordered_value["MID"]) = 4
    /\ LET s == ordered_value["MID"]
       IN  /\ s[1].now_cost = 0
           /\ \E i \in 1..(Len(s) - 1) :
                 /\ ValueCompare(s[i], s[i + 1]) = 0
                 /\ s[i].predicted_points > s[i + 1].predicted_points
           /\ \E i \in 1..(Len(s) - 1) :
                 /\ ValueCompare(s[i], s[i + 1]) = 0
                 /\ s[i].predicted_points = s[i + 1].predicted_points
                 /\ s[i].id > s[i + 1].id

(* C19: in the starting phase the k-th pass, counted from 1, walks the     *)
(* ranking by points when k is odd and the ranking by value when k is      *)
(* even; within a pass the positions are visited in the order FWD, MID,    *)
(* DEF, GKP, a position whose formation count is met is not tried, and at  *)
(* most one row is committed per position per pass.                        *)
ClaimedCycle == << "FWD", "MID", "DEF", "GKP" >>
InStartingPass ==
    phase = "starting" /\ pc \in {"xi_for", "try_entry", "try_loop", "try_check", "xi_got"}
\* the pass under way is pass number guard: guard counts the passes begun,
\* cycle the passes completed
C19_State ==
    InStartingPass =>
        /\ guard = cycle + 1
        /\ pc \in {"try_entry", "try_loop", "try_check"} =>
              /\ TryPos = ClaimedCycle[pos_i]
              /\ OrderedBucket = IF guard % 2 = 1 THEN ordered_points[ClaimedCycle[pos_i]]
                                 ELSE ordered_value[ClaimedCycle[pos_i]]
        /\ pc = "try_entry" =>
              Get(starting_have, ClaimedCycle[pos_i]) < FormationClaimed[ClaimedCycle[pos_i]]
        /\ \A j \in 1..Len(ClaimedCycle) :
              Get(starting_have, ClaimedCycle[j]) <=
                 IF j < pos_i \/ (j = pos_i /\ pc \in {"try_check", "xi_got"})
                 THEN guard ELSE guard - 1
C19_Step ==
    (phase = "starting" /\ phase' = "starting") =>
        /\ pos_i' # pos_i => \/ pos_i' = pos_i + 1
                             \/ pc = "xi_while" /\ pos_i' = 1
        /\ guard' # guard => pc = "xi_while" /\ guard' = guard + 1
        /\ starting_rows' # starting_rows =>
              /\ pc = "xi_got"
              /\ Len(starting_rows') = Len(starting_rows) + 1
              /\ SubSeq(starting_rows', 1, Len(starting_rows)) = starting_rows
              /\ starting_rows'[Len(starting_rows')].position = ClaimedCycle[pos_i]
C19_PassCycle == [](C19_State) /\ [][C19_Step]_vars

\* the 4th pass tries the midfielders on the ranking by value, which differs
\* from the ranking by points, after not trying the forwards, who are complete
C19_Witness ==
    /\ phase = "starting"
    /\ pc = "try_entry"
    /\ guard = 4
    /\ ClaimedCycle[pos_i] = "MID"
    /\ Get(starting_have, "FWD") = 3
    /\ Get(starting_have, "MID") = 3
    /\ OrderedBucket = ordered_value["MID"]
    /\ ordered_value["MID"] # ordered_points["MID"]

(* C20: for a position that still has need, _try_pick_one returns the      *)
(* highest-ranked row of the ranked list it is given that is not selected, *)
(* whose team is below the cap, whose cost is within the remaining budget  *)
(* and for which _can_complete_squad holds on the state with the row       *)
(* committed (need against the whole quota, budget less its cost); it      *)
(* returns no row, and a reason, exactly when no row of the list meets the *)
(* four conditions.                                                        *)
PassesQuickTests(r, sel, counts, budget) ==
    /\ r.id \notin sel
    /\ Get(counts, r.team_id) < max_per_team
    /\ r.now_cost <= budget
Qualifies(r, sel, counts, have, budget) ==
    /\ PassesQuickTests(r, sel, counts, budget)
    /\ _can_complete_squad(budget - r.now_cost,
          _remaining_needed(QuotaClaimed, Put(have, r.position, Get(have, r.position) + 1)),
          buckets, sel \cup {r.id}, Put(counts, r.team_id, Get(counts, r.team_id) + 1),
          max_per_team)
\* _try_pick_one has returned to the loop that called it
Returned == pc \in {"xi_got", "bench_got"}
\* the position had need when _try_pick_one was called and nothing was picked
HadNeed ==
    /\ Get(total_have, TryPos) < QuotaClaimed[TryPos]
    /\ phase = "starting" => Get(starting_have, TryPos) < FormationClaimed[TryPos]
C20_TryPickOne ==
    Returned =>
        IF ret.row # None
        THEN LET row == ret.row[1]
                 sel == selected_ids \ {row.id}
                 counts == DecOrDel(team_counts, row.team_id)
                 have == DecOrDel(total_have, row.position)
                 first == CHOOSE j \in 1..Len(OrderedBucket) : OrderedBucket[j] = row
             IN  /\ ret.err = None
                 /\ row.position = TryPos
                 /\ row \in ToSet(OrderedBucket)
                 /\ Qualifies(row, sel, counts, have, remaining_budget)
                 /\ \A j \in 1..(first - 1) :
                       ~Qualifies(OrderedBucket[j], sel, counts, have, remaining_budget)
        ELSE /\ ret.err # None
             /\ HadNeed =>
                   \A j \in 1..Len(OrderedBucket) :
                       ~Qualifies(OrderedBucket[j], selected_ids, team_counts, total_have,
                                  remaining_budget)

\* the row returned is the third or a later one of its list, and a row ranked
\* above it passed the three quick tests and failed the feasibility check
C20_Witness ==
    /\ Returned
    /\ ret.row # None
    /\ LET row == ret.row[1]
           sel == selected_ids \ {row.id}
           counts == DecOrDel(team_counts, row.team_id)
           first == CHOOSE j \in 1..Len(OrderedBucket) : OrderedBucket[j] = row
       IN  /\ first >= 3
           /\ \E j \in 1..(first - 1) :
                 PassesQuickTests(OrderedBucket[j], sel, counts, remaining_budget)

(* C21: while _try_pick_one runs, the picks committed by the loops do not   *)
(* change, and the selection state is a function of them: at the call,     *)
(* between two candidates and when no candidate is returned, selected_ids, *)
(* team_counts, total_have and starting_have are what they were at the     *)
(* call, entry for entry (a count that returned to zero has no entry);     *)
(* when a candidate is returned the only changes are its id added to       *)
(* selected_ids and its team count, position total and, in the starting    *)
(* phase only, starting position total each increased by one.              *)
CommittedRows == starting_rows \o bench_rows
TeamCountsOf(rows) == [t \in {rows[j].team_id : j \in 1..Len(rows)} |-> CountTeam(rows, t)]
PositionCountsOf(rows) ==
    [p \in {rows[j].position : j \in 1..Len(rows)} |-> CountPosition(rows, p)]
\* the selection state at the call of _try_pick_one that is under way
SelectionAtCall ==
    [selected_ids |-> {CommittedRows[j].id : j \in 1..Len(CommittedRows)},
     team_counts |-> TeamCountsOf(CommittedRows),
     total_have |-> PositionCountsOf(CommittedRows),
     starting_have |-> PositionCountsOf(starting_rows)]
SelectionNow ==
    [selected_ids |-> selected_ids, team_counts |-> team_counts,
     total_have |-> total_have, starting_have |-> starting_have]
InTryPickOne == pc \in {"try_entry", "try_loop", "try_check"}
C21_State ==
    /\ (pc \in {"try_entry", "try_loop"} \/ (Returned /\ ret.row = None)) =>
          SelectionNow = SelectionAtCall
    /\ (Returned /\ ret.row # None) =>
          LET r == ret.row[1]
              before == SelectionAtCall
          IN  /\ r.id \notin before.selected_ids
              /\ selected_ids = before.selected_ids \cup {r.id}
              /\ team_counts = Put(before.team_counts, r.team_id,
                                   Get(before.team_counts, r.team_id) + 1)
              /\ total_have = Put(before.total_have, r.position,
                                  Get(before.total_have, r.position) + 1)
              /\ starting_have =
                    IF phase = "starting"
                    THEN Put(before.starting_have, r.position,
                             Get(before.starting_have, r.position) + 1)
                    ELSE before.starting_have
C21_Step == InTryPickOne => (starting_rows' = starting_rows /\ bench_rows' = bench_rows)
C21_RollbackExact == [](C21_State) /\ [][C21_Step]_vars

\* _try_pick_one has returned no candidate after rolling back a candidate
\* whose team had no entry in team_counts at the call
C21_Witness ==
    /\ Returned
    /\ ret.row = None
    /\ HadNeed
    /\ \E j \in 1..Len(OrderedBucket) :
          /\ PassesQuickTests(OrderedBucket[j], selected_ids, team_counts, remaining_budget)
          /\ OrderedBucket[j].team_id \notin DOMAIN team_counts
    /\ team_counts # EmptyDict

(* C22: the starting loop and the bench loop always terminate.  Every pass *)
(* that does not end the loop has committed at least one pick, so the      *)
(* passes begun (guard) never exceed the picks of the phase plus one: at   *)
(* most 12 passes of the starting loop and 5 of the bench loop; the guard  *)
(* branches (more than 2000 and more than 3000 passes) are never taken;    *)
(* and every step of a request lowers a measure that is bounded below, so  *)
(* every request reaches its response after finitely many steps.           *)
GuardReason(rs) == \E j \in 1..Len(rs) :
    rs[j].err \in {"Guard hit while building starting XI (unexpected loop).",
                   "Guard hit while building bench (unexpected loop)."}
PhaseRows == IF phase = "starting" THEN starting_rows ELSE bench_rows
\* the measure: what is left of the request, of the passes allowed, of the
\* positions of the pass and of the ranked list under way, compared as a tuple
StageLeft ==
    CASE pc = "decide" -> 6 [] pc = "fetch" -> 5 [] pc = "xi_return" -> 3
      [] pc = "bench_return" -> 1 [] pc = "done" -> 0
      [] OTHER -> IF phase = "starting" THEN 4 ELSE 2
PassesLeft == (IF phase = "starting" THEN 12 ELSE 5) - guard
PositionsLeft == IF pc \in {"xi_while", "bench_while"} THEN 0 ELSE 6 - pos_i
ListLeft ==
    CASE pc \in {"xi_for", "bench_for"} -> 2 * Len(db_rows) + 5
      [] pc = "try_entry" -> 2 * Len(db_rows) + 4
      [] pc = "try_loop" -> 2 * (Len(db_rows) + 1 - try_i) + 2
      [] pc = "try_check" -> 2 * (Len(db_rows) + 1 - try_i) + 1
      [] OTHER -> 0
Variant == << StageLeft, PassesLeft, PositionsLeft, ListLeft >>
C22_State ==
    /\ (phase = "starting" /\ pc # "decide" /\ pc # "fetch") =>
          /\ guard <= 12
          /\ guard <= 2000
    /\ phase = "bench" =>
          /\ guard <= 5
          /\ guard <= 3000
    /\ pc \in {"xi_while", "bench_while"} => guard <= Len(PhaseRows)
    /\ pc \in {"xi_for", "try_entry", "try_loop", "try_check", "xi_got", "bench_for", "bench_got"} =>
          guard <= Len(PhaseRows) + (IF progress THEN 0 ELSE 1)
    /\ ~GuardReason(reasons1 \o reasons2)
    /\ StuckFailure => ~GuardReason(response.diagnostics.reasons)
    /\ \A j \in 1..Len(Variant) : Variant[j] >= 0
    /\ pc \in {"decide", "fetch", "xi_while", "xi_for", "try_entry", "try_loop", "try_check",
               "xi_got", "xi_return", "bench_while", "bench_for", "bench_got",
               "bench_return", "done"}
C22_Step ==
    /\ (pc = "xi_for" /\ pc' = "xi_while") => Len(starting_rows) > cycle
    /\ (pc = "bench_for" /\ pc' = "bench_while") => progress /\ Len(bench_rows) >= guard
    /\ (pc \in {"xi_while", "bench_while"} /\ guard' # guard) =>
          /\ guard' = guard + 1
          /\ pc' \in {"xi_for", "bench_for"}
    /\ TupleLess(Variant', Variant)
C22_Terminates == [](C22_State) /\ [][C22_Step]_vars

\* the starting loop has ended in its third or a later pass, which committed
\* nothing, every pass before it having committed a pick
C22_Witness ==
    /\ phase = "starting"
    /\ pc = "xi_return"
    /\ ~starting_done
    /\ ~progress
    /\ guard >= 3
    /\ Len(starting_rows) >= guard - 1

(* C23: the bench phase begins only when the starting picks meet the       *)
(* Formation exactly, and begins with the selected ids, team counts,       *)
(* position totals and remaining budget the starting phase ended with;     *)
(* once begun it never returns to the starting phase or changes the        *)
(* starting picks; every list it walks is the ranking by value of the      *)
(* position tried; within a pass the positions are tried in the order GKP, *)
(* DEF, MID, FWD; every bench pick is a row that is not a starting pick,   *)
(* whose team stays within the cap and whose cost stays within the budget  *)
(* with the starting picks counted.                                        *)
ClaimedBenchOrder == << "GKP", "DEF", "MID", "FWD" >>
StartingIds == {starting_rows[j].id : j \in 1..Len(starting_rows)}
C23_State ==
    phase = "bench" =>
        /\ \A p \in Positions : CountPosition(starting_rows, p) = FormationClaimed[p]
        /\ Len(starting_rows) = 11
        /\ StartingIds \subseteq selected_ids
        /\ \A j \in 1..Len(bench_rows) : bench_rows[j].id \notin StartingIds
        /\ pc \in {"try_entry", "try_loop", "try_check", "bench_got"} =>
              /\ TryPos = ClaimedBenchOrder[pos_i]
              /\ OrderedBucket = _sort_bucket(buckets[ClaimedBenchOrder[pos_i]], "value")
        /\ pc \in {"bench_while", "bench_for", "try_entry", "try_loop"} =>
              /\ team_counts = TeamCountsOf(CommittedRows)
              /\ total_have = PositionCountsOf(CommittedRows)
              /\ remaining_budget = budget_m - CostOfRows(CommittedRows)
        /\ \A t \in TeamsOfPool : CountTeam(CommittedRows, t) <= max_per_team
        /\ CostOfRows(CommittedRows) <= budget_m
C23_Step ==
    /\ (phase = "starting" /\ phase' = "bench") =>
          /\ starting_done
          /\ selected_ids' = selected_ids
          /\ team_counts' = team_counts
          /\ total_have' = total_have
          /\ remaining_budget' = remaining_budget
          /\ starting_rows' = starting_rows
          /\ bench_rows' = << >>
    /\ phase = "bench" =>
          /\ phase' = "bench"
          /\ starting_rows' = starting_rows
          /\ pos_i' # pos_i => (pos_i' = pos_i + 1 \/ (pc = "bench_while" /\ pos_i' = 1))
          /\ bench_rows' # bench_rows =>
                /\ pc = "bench_got"
                /\ bench_rows' = Append(bench_rows, ret.row[1])
                /\ ret.row[1].position = ClaimedBenchOrder[pos_i]
                /\ ret.row[1].id \notin StartingIds
                /\ CountTeam(starting_rows \o bench_rows', ret.row[1].team_id) <= max_per_team
                /\ remaining_budget' = remaining_budget - ret.row[1].now_cost
                /\ remaining_budget' >= 0
C23_BenchAfterStarting == [](C23_State) /\ [][C23_Step]_vars

\* a bench pick that is not the first of its ranking by value: a row ranked
\* above it is a starting pick, and another is free but of a team that the
\* starting picks alone have brought to the cap
C23_Witness ==
    /\ phase = "bench"
    /\ pc = "bench_got"
    /\ ret.row # None
    /\ LET first == CHOOSE j \in 1..Len(OrderedBucket) : OrderedBucket[j] = ret.row[1]
       IN  /\ \E j \in 1..(first - 1) : OrderedBucket[j].id \in StartingIds
           /\ \E j \in 1..(first - 1) :
                 /\ OrderedBucket[j].id \notin selected_ids
                 /\ CountTeam(starting_rows, OrderedBucket[j].team_id) = max_per_team

(* C24: _can_complete_squad is necessary, not sufficient.  At every        *)
(* feasibility check it answers True whenever a valid completion exists,   *)
(* and it answers True exactly when a completion exists for the relaxed    *)
(* problem in which each role is filled on its own, from unselected rows   *)
(* whose team is now below the cap, the cheapest sums together within the  *)
(* remaining budget; the witness is a check that answers True although no  *)
(* set of further picks fills every role within the budget and the cap.    *)
\* the unselected rows of position p whose team is below the cap as counted now
Eligible(p, selected, counts, cap) ==
    {r \in Unselected(p, selected) : Get(counts, r.team_id) < cap}
\* the costs of the ways to fill the need of position p alone
RoleCosts(p, need, selected, counts, cap) ==
    {CostOfSet(T) : T \in KSubsets(Eligible(p, selected, counts, cap), need[p])}
RelaxedCompletionExists(budget, need, selected, counts, cap) ==
    \E g \in RoleCosts("GKP", need, selected, counts, cap) :
    \E d \in RoleCosts("DEF", need, selected, counts, cap) :
    \E m \in RoleCosts("MID", need, selected, counts, cap) :
    \E f \in RoleCosts("FWD", need, selected, counts, cap) : g + d + m + f <= budget
\* a valid completion of the state of the hypothetical add under check
CompletionOfCheck ==
    CompletionExists(remaining_budget - TryRow.now_cost,
                     _remaining_needed(QuotaClaimed, total_have),
                     selected_ids, team_counts, max_per_team)
C24_State ==
    pc = "try_check" =>
        /\ Feasible \/ ~CompletionOfCheck
        /\ Feasible <=> RelaxedCompletionExists(remaining_budget - TryRow.now_cost,
                                                _remaining_needed(QuotaClaimed, total_have),
                                                selected_ids, team_counts, max_per_team)
C24_NecessaryNotSufficient == [](C24_State)

\* the oracle answers True, with the whole budget of the Query at hand and a
\* cap of 2, on a state that no set of further picks completes
C24_Witness ==
    /\ pc = "try_check"
    /\ Feasible
    /\ max_per_team = 2
    /\ budget_m = BudgetMax
    /\ ~CompletionOfCheck

(* C25: every pick a loop commits has passed _can_complete_squad, a build  *)
(* that succeeds has selected a valid squad, and a build that ends stuck   *)
(* returns a failure with reasons and no squad, whether or not the pool    *)
(* holds a valid squad: the witness is a stuck failure on a pool that      *)
(* holds 15 rows meeting the quotas within the budget and the team cap.    *)
\* the pool holds a valid squad, by exhaustive search
ValidSquadExists == CompletionExists(budget_m, QuotaClaimed, {}, EmptyDict, max_per_team)
SquadFields == {"starting_xi", "bench", "bench_list", "squad_list", "summary"}
C25_GreedyMayFail ==
    /\ (Returned /\ ret.row # None) =>
          _can_complete_squad(remaining_budget - ret.row[1].now_cost,
                              _remaining_needed(QuotaClaimed, total_have),
                              buckets, selected_ids, team_counts, max_per_team)
    /\ Succeeded =>
          /\ ValidSquadExists
          /\ \A p \in Positions : CountPosition(CommittedRows, p) = QuotaClaimed[p]
          /\ CostOfRows(CommittedRows) <= budget_m
          /\ \A t \in TeamsOfPool : CountTeam(CommittedRows, t) <= max_per_team
    /\ (pc = "done" /\ PastFetch /\ ShortRoles = {}) => (Succeeded \/ StuckFailure)
    /\ StuckFailure =>
          /\ (DOMAIN response) \cap SquadFields = {}
          /\ Len(response.diagnostics.reasons) >= 1
          /\ \E p \in Positions : CountPosition(CommittedRows, p) < QuotaClaimed[p]

\* a stuck failure on a pool that holds a valid squad, every pick committed
\* on the way having passed the oracle
C25_Witness ==
    /\ StuckFailure
    /\ ValidSquadExists
    /\ Len(CommittedRows) >= 11

(* C26, as claimed: a candidate whose cost equals the remaining budget is  *)
(* not skipped on budget grounds, the oracle answers True when the         *)
(* cheapest-per-role lower bound equals the remaining budget, and hence a  *)
(* pool whose only valid squad costs exactly the budget is built           *)
(* successfully with remaining budget 0.                                   *)
MinOf(S) == CHOOSE x \in S : \A y \in S : x <= y
\* the cheapest-per-role lower bound of the state under check, by enumeration;
\* None when some role cannot be filled
LowerBoundOfCheck ==
    LET need == _remaining_needed(QuotaClaimed, total_have)
        costs == [p \in Positions |-> RoleCosts(p, need, selected_ids, team_counts, max_per_team)]
    IN  IF \E p \in Positions : costs[p] = {} THEN None
        ELSE Some(MinOf(costs["GKP"]) + MinOf(costs["DEF"]) + MinOf(costs["MID"])
                    + MinOf(costs["FWD"]))
ExactCostNotSkipped ==
    (pc = "try_loop" /\ try_i <= Len(OrderedBucket)
       /\ TryRow.now_cost = remaining_budget /\ TryRow.id \notin selected_ids
       /\ Get(team_counts, TryRow.team_id) < max_per_team) => ~SkipRow(TryRow)
ExactBoundFeasible ==
    (pc = "try_check" /\ LowerBoundOfCheck = Some(remaining_budget - TryRow.now_cost)) => Feasible
\* the valid squads of the pool, by exhaustive search
ValidSquads ==
    {S \in {G \cup D \cup M \cup F :
              G \in KSubsets(Unselected("GKP", {}), QuotaClaimed["GKP"]),
              D \in KSubsets(Unselected("DEF", {}), QuotaClaimed["DEF"]),
              M \in KSubsets(Unselected("MID", {}), QuotaClaimed["MID"]),
              F \in KSubsets(Unselected("FWD", {}), QuotaClaimed["FWD"])} :
        WithinCap(S, EmptyDict, max_per_team) /\ CostOfSet(S) <= budget_m}
OnlySquadAtBudget ==
    /\ Cardinality(ValidSquads) = 1
    /\ \A S \in ValidSquads : CostOfSet(S) = budget_m
BuildEnded == pc = "done" /\ PastFetch /\ ShortRoles = {}
C26_Original ==
    /\ ExactCostNotSkipped
    /\ ExactBoundFeasible
    /\ (BuildEnded /\ OnlySquadAtBudget) => (Succeeded /\ remaining_budget = 0)

(* C26, amended: a candidate whose cost equals the remaining budget is not *)
(* skipped on budget grounds, and committing it leaves a remaining budget  *)
(* of 0; the oracle answers True when the cheapest-per-role lower bound    *)
(* equals the remaining budget.  A pool in which no team has more than     *)
(* max_per_team candidates and whose cheapest squad costs exactly the      *)
(* budget is built successfully with remaining budget 0; a pool whose only *)
(* valid squad costs exactly the budget ends either in that squad with     *)
(* remaining budget 0 or in the stuck failure.                             *)
\* the rows of the pool the optimizer keeps: those of a known position
KnownRows == SelectSeq(db_rows, LAMBDA r : r.position \in Positions)
CapCannotBind == \A t \in TeamsOfPool : CountTeam(KnownRows, t) <= max_per_team
C26_State ==
    /\ ExactCostNotSkipped
    /\ ExactBoundFeasible
    /\ (BuildEnded /\ CapCannotBind /\ CheapestClaimed = budget_m) =>
          (Succeeded /\ remaining_budget = 0)
    /\ (BuildEnded /\ OnlySquadAtBudget) =>
          \/ StuckFailure
          \/ /\ Succeeded
             /\ remaining_budget = 0
             /\ ToSet(CommittedRows) \in ValidSquads
C26_Step ==
    (Returned /\ ret.row # None /\ ret.row[1].now_cost = remaining_budget /\ pc' # pc) =>
        remaining_budget' = 0
C26_ExactBudget == [](C26_State) /\ [][C26_Step]_vars

\* a pool larger than the squad, whose only valid squad costs exactly the
\* budget, has been built with nothing left: the last pick cost exactly what
\* remained and the oracle passed it on a lower bound of exactly 0
C26_Witness ==
    /\ Succeeded
    /\ remaining_budget = 0
    /\ OnlySquadAtBudget
    /\ Len(db_rows) > 16
    /\ bench_rows[Len(bench_rows)].now_cost > 0

(* C27: with non-negative costs, a role for which no row qualifies on the  *)
(* picks committed so far (which is when an attempt for it returns no      *)
(* candidate) is still such a role once one more pick is committed,        *)
(* whatever the ranking: every later attempt for the role returns no       *)
(* candidate.  Hence no pick is ever committed for a role that has a       *)
(* reason in either list, a build that succeeds has no reason in either    *)
(* list, and the bench phase starts with an empty list of starting-phase   *)
(* reasons.                                                                *)
\* no row of position p qualifies once exactly the picks of rows are committed
StuckRole(p, rows) ==
    \A j \in 1..Len(buckets[p]) :
        ~Qualifies(buckets[p][j], {rows[i].id : i \in 1..Len(rows)}, TeamCountsOf(rows),
                   PositionCountsOf(rows), budget_m - CostOfRows(rows))
NoFeasible == "No feasible candidate under current constraints."
C27_State ==
    /\ \A j \in 1..Len(db_rows) : db_rows[j].now_cost >= 0
    /\ (Returned /\ ret.row = None /\ HadNeed) =>
          /\ StuckRole(TryPos, CommittedRows)
          /\ ret.err[1].err = NoFeasible
    /\ (Returned /\ ret.row # None) =>
          /\ \A p \in Positions :
                StuckRole(p, CommittedRows) => StuckRole(p, Append(CommittedRows, ret.row[1]))
          /\ \A j \in 1..Len(reasons1 \o reasons2) :
                (reasons1 \o reasons2)[j].position # ret.row[1].position
    /\ phase = "bench" => reasons1 = << >>
    /\ Succeeded => (reasons1 = << >> /\ reasons2 = << >>)
    /\ (pc = "done" /\ PastFetch /\ reasons1 \o reasons2 # << >>) => StuckFailure
C27_FailureIsFinal == [](C27_State)

\* a role failed in a pass by points, other roles committed picks, and the
\* same role failed again in a pass by value
C27_Witness ==
    /\ Returned
    /\ ret.row = None
    /\ Len(starting_rows) >= 3
    /\ \E i, j \in 1..Len(reasons1) :
          /\ i < j
          /\ reasons1[i].position = reasons1[j].position
          /\ reasons1[i].err = NoFeasible
          /\ reasons1[j].err = NoFeasible
          /\ reasons1[i].tag = "[starting:points]"
          /\ reasons1[j].tag = "[starting:value]"

(* C28: in every state of a build, the states between pick attempts among  *)
(* them, the stored count of every team is the number of selected rows of  *)
(* that team and the stored total of every position is the number of       *)
(* selected rows of that position; neither dict holds an entry of value 0  *)
(* or an entry for a team or position without a selected row.  In a        *)
(* success response summary.team_counts and summary.squad_counts are the   *)
(* counts by team and by position over the 15 players of the response.     *)
SelectedRows == RowsWithIds(selected_ids)
BetweenAttempts == pc \in {"xi_while", "xi_for", "xi_return", "bench_while", "bench_for", "bench_return"}
ResponsePlayers == _flatten_pos_dict(response.starting_xi) \o _flatten_pos_dict(response.bench)
C28_CountsMatchSelection ==
    /\ \A t \in TeamsOfPool \cup DOMAIN team_counts :
          Get(team_counts, t) = CountTeam(SelectedRows, t)
    /\ \A p \in Positions \cup DOMAIN total_have :
          Get(total_have, p) = CountPosition(SelectedRows, p)
    /\ \A t \in DOMAIN team_counts : team_counts[t] >= 1
    /\ \A p \in DOMAIN total_have : total_have[p] >= 1
    /\ BetweenAttempts => Cardinality(selected_ids) = Len(CommittedRows)
    /\ Succeeded =>
          /\ Len(ResponsePlayers) = 15
          /\ DOMAIN response.summary.team_counts =
                {ResponsePlayers[j].team_id : j \in 1..Len(ResponsePlayers)}
          /\ \A t \in DOMAIN response.summary.team_counts :
                response.summary.team_counts[t] =
                   Cardinality({j \in 1..Len(ResponsePlayers) : ResponsePlayers[j].team_id = t})
          /\ \A p \in Positions :
                response.summary.squad_counts[p] =
                   Cardinality({j \in 1..Len(ResponsePlayers) : ResponsePlayers[j].position = p})

\* between two attempts, after a failed one: a team of the pool has no selected
\* row and no entry, another has as many selected rows as the cap allows
C28_Witness ==
    /\ BetweenAttempts
    /\ Len(CommittedRows) >= 1
    /\ Len(reasons1) + Len(reasons2) >= 1
    /\ \E t \in TeamsOfPool : t \notin DOMAIN team_counts
    /\ \E t \in DOMAIN team_counts : team_counts[t] = max_per_team

(* C29: the same request is built twice on the same rows, the second time  *)
(* with the rows in another order.  When no two rows of a position tie on  *)
(* both keys of the value ranking (value, then points), the second build   *)
(* makes the same starting picks and the same bench picks in the same pick *)
(* order and leaves the same reasons, the same budget and, the clock       *)
(* apart, the same response.  Rows that tie on both keys are ranked in the *)
(* order of the input, and then the picks can differ.                      *)
ValueTie(a, b) ==
    /\ ~ValueLess(a, b)
    /\ ~ValueLess(b, a)
    /\ a.predicted_points = b.predicted_points
NoValueTie(rows) ==
    \A i, j \in 1..Len(rows) :
        (i # j /\ rows[i].position = rows[j].position /\ rows[i].position \in Positions)
            => ~ValueTie(rows[i], rows[j])
SecondBuildEnded == pc = "done" /\ run > 1 /\ prev_build # None
\* both builds succeed with the same picks in the same order, or both fail with
\* the same error and the same reasons
SameOutcome ==
    /\ Succeeded <=> "summary" \in DOMAIN prev_response
    /\ Succeeded => /\ starting_rows = prev_build[1].starting
                    /\ bench_rows = prev_build[1].bench
    /\ Failed => /\ response.error = prev_response.error
                 /\ reasons1 = prev_build[1].reasons1
                 /\ reasons2 = prev_build[1].reasons2
C29_Original == SecondBuildEnded => SameOutcome
C29_OrderIndependentWithoutTies ==
    (SecondBuildEnded /\ NoValueTie(db_rows)) =>
        /\ Some(Build) = prev_build
        /\ WithoutClock(response) = WithoutClock(prev_response)

\* a pool without ties, reordered, on which the second build succeeded
C29_Witness ==
    /\ SecondBuildEnded
    /\ NoValueTie(db_rows)
    /\ Succeeded
    /\ Len(db_rows) > SquadSize

(* C30: when no team has more rows in the pool than the cap allows, every  *)
(* position has at least its quota of rows, no cost is negative and the    *)
(* quota cheapest rows of every position together cost no more than the    *)
(* budget, the build ends in success: no attempt for a position returns    *)
(* without a candidate, neither loop records a reason, and the remaining   *)
(* budget always covers the cheapest rows still needed.                    *)
NoTeamOverCap == \A t \in TeamsOfPool : CountTeam(db_rows, t) <= max_per_team
NonNegativeCosts == \A j \in 1..Len(db_rows) : db_rows[j].now_cost >= 0
SufficientPool ==
    /\ PastFetch
    /\ NoTeamOverCap
    /\ ShortRoles = {}
    /\ NonNegativeCosts
    /\ CheapestClaimed <= budget_m
\* the cost of the cheapest rows that fill what the committed picks leave open
CheapestRest ==
    SumSeq([j \in 1..Len(PositionOrder) |->
        LET p == PositionOrder[j]
            rest == SelectSeq(db_rows, LAMBDA r : r.position = p /\ r \notin ToSet(CommittedRows))
            costs == SortedAscending([i \in 1..Len(rest) |-> rest[i].now_cost], << >>)
        IN  SumSeq(SubSeq(costs, 1, QuotaClaimed[p] - CountPosition(CommittedRows, p)))])
C30_SufficientPoolSucceeds ==
    SufficientPool =>
        /\ pc = "done" => Succeeded
        /\ reasons1 = << >>
        /\ reasons2 = << >>
        /\ Returned => ret.row # None
        /\ BetweenAttempts => CheapestRest <= remaining_budget

\* a build out of such a pool, larger than the squad, on a budget 3.0 above
\* the cheapest squad, that spent more than the cheapest squad costs
C30_Witness ==
    /\ SufficientPool
    /\ Succeeded
    /\ Len(KnownRows) > SquadSize
    /\ budget_m = CheapestClaimed + 30
    /\ remaining_budget < 30

============================================================================
